---- MODULE Spec2Model ----
(***************************************************************************)
(* A model of the point-of-sale engine of JayPing23/PointOfSales:           *)
(*   - POSApp (src/main.py): catalog, cart, payment dialog, finalize_sale,  *)
(*     the sales ledger file and the product manager window;                *)
(*   - POSManager (src/src/managers/pos_manager.py): cart and checkout.     *)
(*                                                                         *)
(* Money is held as an integer number of 1/10000 of the currency unit, so  *)
(* that a price in whole cents times the 8% tax rate is exact.  A Python    *)
(* float is a record [kind, v]: kind "num" with value v, or kind "nan".     *)
(* A field read from an entry widget or a text file is a record [k, n, s]:  *)
(* k = "int" (an integer literal n), "dec" (a decimal literal of value n),  *)
(* "nan" (the literal nan) or "txt" (any other text s).                     *)
(***************************************************************************)
EXTENDS Integers, Sequences, FiniteSets, TLC

VARIABLES
    mode,            \* which program runs: "app" (POSApp) or "mgr" (POSManager)
    products,        \* POSApp.products
    product_buttons, \* the product each button's command was bound to
    cart,            \* POSApp.cart
    sales_file,      \* lines of CONFIG['sales_file']
    products_file,   \* [exists, format, rows] of datas/products.txt
    ims_file,        \* [exists, format, rows] of the file picked in the
                     \* Import from IMS and Export to IMS file dialogs
    active_path,     \* CONFIG['products_file']: the path of the active
                     \* products file
    writable,        \* [sales, products, ims]: whether each file can be
                     \* opened for writing
    custom_file,     \* [exists, custom] of datas/custom_categories.json
    category_tree,   \* the global CATEGORY_TREE
    tabs,            \* what the Sales Summary and Analytics tabs show: each
                     \* a sequence, empty until the tab has been built
    pc,              \* "idle", or "payment" while the PaymentDialog is open
    dialog_total,    \* PaymentDialog.total while the dialog is open
    receipt,         \* the sale_record handed to the last ReceiptWindow
    sale_seq,        \* sales finalized in this session (names the next uuid)
    now,             \* the clock datetime.now() reads
    m_cart,          \* POSManager.cart
    m_sales,         \* POSManager.sales
    op               \* the last handler run: its name, its arguments, the
                     \* message box it showed and what it returned

vars == <<mode, products, product_buttons, cart, sales_file, products_file,
          ims_file, active_path, writable, tabs, pc, dialog_total, receipt,
          sale_seq, now, m_cart, m_sales, custom_file, category_tree, op>>

\* the exchange file and the path of the active products file
ioVars == <<ims_file, active_path>>

appVars == <<products, product_buttons, cart, sales_file, products_file,
             ims_file, active_path, tabs, pc, dialog_total, receipt, sale_seq,
             now>>

mgrVars == <<m_cart, m_sales>>

\* the custom categories file and the category tree
catVars == <<custom_file, category_tree>>

----------------------------------------------------------------------------
(* Bounds of the model *)

\* a cart line's quantity is raised no further than this
MaxQty == 2
\* sales finalized in one session
MaxSales == 1
\* items the catalog may hold for Add New Item to add one more
MaxProducts == 2

\* CONFIG['tax_rate'] = 0.08, in percent
TaxRatePct == 8

----------------------------------------------------------------------------
(* Floats and text fields *)

Num(v) == [kind |-> "num", v |-> v]
NaN == [kind |-> "nan", v |-> 0]

\* a < b on floats: every comparison with nan is False
FloatLess(a, b) == a.kind = "num" /\ b.kind = "num" /\ a.v < b.v

\* a - b on floats
FloatSub(a, b) ==
    IF a.kind = "num" /\ b.kind = "num" THEN Num(a.v - b.v) ELSE NaN

IntText(n) == [k |-> "int", n |-> n, s |-> ""]
DecText(n) == [k |-> "dec", n |-> n, s |-> ""]
NanText == [k |-> "nan", n |-> 0, s |-> ""]
Text(s) == [k |-> "txt", n |-> 0, s |-> s]

\* float(text) succeeds on integer and decimal literals and on "nan"
FloatOk(f) == f.k \in {"int", "dec", "nan"}
FloatOf(f) == IF f.k = "nan" THEN NaN ELSE Num(f.n)

\* int(text) succeeds on integer literals only
IntOk(f) == f.k = "int"

\* f"{x:.2f}" of a non-negative amount: the nearest whole cent
Fmt2(x) == ((x + 50) \div 100) * 100

\* f"{x:.2f}" of a float
Fmt2Float(x) == IF x.kind = "num" THEN DecText(Fmt2(x.v)) ELSE NanText

----------------------------------------------------------------------------
(* The category tree: a dict is a sequence of its entries in insertion order *)

\* the two-level tree the module defines first
CATEGORY_TREE ==
    <<[main |-> "Raw Materials",
       subs |-> <<"Metals", "Plastics", "Chemicals", "Other">>],
      [main |-> "Components",
       subs |-> <<"Electronics", "Mechanical", "Optical", "Other">>],
      [main |-> "Finished Goods",
       subs |-> <<"Electronics", "Furniture", "Apparel", "Other">>],
      [main |-> "Consumables",
       subs |-> <<"Food", "Beverage", "Office Supplies", "Other">>],
      [main |-> "Perishables",
       subs |-> <<"Produce", "Dairy", "Meat", "Other">>],
      [main |-> "Equipment",
       subs |-> <<"IT", "Manufacturing", "Office", "Other">>],
      [main |-> "Supplies",
       subs |-> <<"Cleaning", "Packaging", "Safety", "Other">>],
      [main |-> "Packaging",
       subs |-> <<"Boxes", "Bottles", "Wrapping", "Other">>],
      [main |-> "Service",
       subs |-> <<"Repair", "Installation", "Delivery", "Consulting",
                  "Other">>],
      [main |-> "Digital",
       subs |-> <<"Software", "eBook", "Media", "License", "Other">>],
      [main |-> "Subscription",
       subs |-> <<"SaaS", "Maintenance", "Membership", "Other">>],
      [main |-> "Booking",
       subs |-> <<"Event", "Rental", "Appointment", "Other">>],
      [main |-> "Training", subs |-> <<"Staff", "Customer", "Other">>],
      [main |-> "Maintenance", subs |-> <<"Equipment", "IT", "Other">>],
      [main |-> "Other", subs |-> <<"Other">>]>>

Mains(tree) == {tree[i].main : i \in 1..Len(tree)}
Elems(seq) == {seq[i] : i \in 1..Len(seq)}
EntryOf(tree, main) == CHOOSE i \in 1..Len(tree) : tree[i].main = main

\* load_custom_categories: the mapping of the file, {} when there is none
load_custom_categories(file) == IF file.exists THEN file.custom ELSE <<>>

RECURSIVE AddSubs_All(_, _)
\* variant: every custom sub is appended
AddSubs_All(subs, new) ==
    IF new = <<>> THEN subs
    ELSE AddSubs_All(Append(subs, new[1]), Tail(new))

RECURSIVE AddSubs(_, _)
\* for sub in subs: if sub not in tree[main]: tree[main].append(sub)
AddSubs(subs, new) ==
    IF new = <<>> THEN subs
    ELSE AddSubs(IF new[1] \in Elems(subs) THEN subs
                 ELSE Append(subs, new[1]),
                 Tail(new))

RECURSIVE Merge(_, _)
\* the loop of get_full_category_tree over custom.items()
Merge(tree, custom) ==
    IF custom = <<>> THEN tree
    ELSE LET main == custom[1].main
             t1 == IF main \notin Mains(tree)
                   THEN Append(tree, [main |-> main, subs |-> <<>>])
                   ELSE tree
             i == EntryOf(t1, main)
         IN Merge([t1 EXCEPT ![i].subs = AddSubs(@, custom[1].subs)],
                  Tail(custom))

\* get_full_category_tree() over the global tree and the custom file
get_full_category_tree(tree, file) ==
    Merge(tree, load_custom_categories(file))

NoCustomFile == [exists |-> FALSE, custom |-> <<>>]

\* the module as imported where no custom categories file exists
CategoriesInit ==
    /\ custom_file = NoCustomFile
    /\ category_tree = get_full_category_tree(CATEGORY_TREE, custom_file)

----------------------------------------------------------------------------
(* Pricing *)

RECURSIVE SumLines(_)
\* sum(item['price'] * item['quantity'] for item in self.cart)
SumLines(c) ==
    IF c = <<>> THEN 0
    ELSE c[1].price * c[1].quantity + SumLines(Tail(c))

\* checkout: sum(...) * (1 + CONFIG['tax_rate'])
\* variant: the tax is taken on the first line of the cart only
update_totals_FirstLineTax(c) ==
    LET subtotal == SumLines(c)
        tax == IF c = <<>> THEN 0
               ELSE (c[1].price * c[1].quantity * TaxRatePct) \div 100
    IN [subtotal |-> subtotal, tax |-> tax, total |-> subtotal + tax]

\* the subtotal, tax and total update_totals shows for the cart
update_totals(c) ==
    LET subtotal == SumLines(c)
        tax == (subtotal * TaxRatePct) \div 100
    IN [subtotal |-> subtotal, tax |-> tax, total |-> subtotal + tax]

\* variant: the amount due leaves the tax out
TotalAmount_NoTax(c) == SumLines(c)
TotalAmount(c) == (SumLines(c) * (100 + TaxRatePct)) \div 100

CartIds(c) == {c[i].id : i \in 1..Len(c)}

----------------------------------------------------------------------------
(* Cart (POSApp) *)

HasLine(c, id) == \E i \in 1..Len(c) : c[i].id = id

\* the first line the loop of add_to_cart meets with this id
LineOf(c, id) == CHOOSE i \in 1..Len(c) :
    c[i].id = id /\ \A j \in 1..(i - 1) : c[j].id # id

\* the cart_item dict add_to_cart builds
CartItem(p) ==
    [id |-> p.id, name |-> p.name, type |-> p.type, unit |-> p.unit,
     price |-> p.price, quantity |-> 1]

\* the stock check of add_to_cart, made for tangible products only
StockBlocks_AnyKind(p) == p.stock <= 0
StockBlocks(p) == p.type = "product" /\ p.stock <= 0

add_to_cart_StockChecked(c, p) ==
    IF StockBlocks(p) \/ (HasLine(c, p.id) /\ p.type = "product"
                           /\ c[LineOf(c, p.id)].quantity >= p.stock)
    THEN c
    ELSE IF HasLine(c, p.id)
    THEN [c EXCEPT ![LineOf(c, p.id)].quantity = @ + 1]
    ELSE Append(c, CartItem(p))

add_to_cart_NewLine(c, p) ==
    IF ~HasLine(c, p.id) /\ StockBlocks(p) THEN c
    ELSE Append(c, CartItem(p))

\* self.cart after add_to_cart(product)
add_to_cart(c, p) ==
    IF HasLine(c, p.id)
    THEN [c EXCEPT ![LineOf(c, p.id)].quantity = @ + 1]
    ELSE IF StockBlocks(p) THEN c
    ELSE Append(c, CartItem(p))

\* the warning add_to_cart shows, if any
add_to_cart_msg(c, p) ==
    IF ~HasLine(c, p.id) /\ StockBlocks(p) THEN "Out of Stock" ELSE "none"

RECURSIVE Without(_, _)
\* [item for item in cart if item['id'] not in selection]
Without(c, sel) ==
    IF c = <<>> THEN <<>>
    ELSE IF c[1].id \in sel THEN Without(Tail(c), sel)
    ELSE <<c[1]>> \o Without(Tail(c), sel)

\* self.cart after remove_from_cart with these rows selected in the tree
remove_from_cart(c, sel) == Without(c, sel)

----------------------------------------------------------------------------
(* Catalog files: pipe-delimited text, JSON and CSV *)

\* the dict load_data appends for one row
MakeProduct(id, name, category, type, price, stock, unit, description) ==
    [id |-> id, name |-> name, category |-> category,
     category_main |-> category, category_sub |-> "", type |-> type,
     price |-> price, stock |-> stock, unit |-> unit,
     description |-> description]

\* dict.get(key, default)
Get(d, key, default) == IF key \in DOMAIN d THEN d[key] ELSE default

\* a or b on strings: the empty string is false
Or(a, b) == IF a # "" THEN a ELSE b

\* the positions of the separator in s
Bars(s) == {i \in 1..Len(s) : SubSeq(s, i, i) = "|"}

RECURSIVE Split(_, _, _)
\* s.split('|') from position start on, given the separators not yet passed
Split(s, start, bars) ==
    IF bars = {} THEN <<SubSeq(s, start, Len(s))>>
    ELSE LET i == CHOOSE j \in bars : \A k \in bars : j <= k IN
         <<SubSeq(s, start, i - 1)>> \o Split(s, i + 1, bars \ {i})

\* the fields a text written between separators is read back as
Fields(s) ==
    LET bars == Bars(s) IN
    IF bars = {} THEN <<Text(s)>>
    ELSE LET parts == Split(s, 1, bars) IN
         [i \in 1..Len(parts) |-> Text(parts[i])]

\* the line save_products writes for one product, as split('|') reads it
FormatRow(p) ==
    Fields(p.id) \o Fields(p.name) \o Fields(Get(p, "category", ""))
    \o Fields(Get(p, "type", "product"))
    \o <<DecText(Get(p, "price", 0)), IntText(Get(p, "stock", 0))>>
    \o Fields(Get(p, "unit", "pcs")) \o Fields(Get(p, "description", ""))

RECURSIVE FormatRows(_)
FormatRows(ps) ==
    IF ps = <<>> THEN <<>> ELSE <<FormatRow(ps[1])>> \o FormatRows(Tail(ps))

\* a line for which line.strip() is empty
IsBlank(row) == row = <<Text("")>>

\* float(price) or int(stock) raises ValueError on this row
RowRaises(row) ==
    \/ Len(row) = 4 /\ ~(FloatOk(row[3]) /\ IntOk(row[4]))
    \/ Len(row) >= 8 /\ ~(FloatOk(row[5]) /\ IntOk(row[6]))

\* the row is neither legacy (4 fields) nor extended (8 or more): not loaded
RowSkipped(row) == IsBlank(row) \/ (Len(row) # 4 /\ Len(row) < 8)

ParseRow(row) ==
    IF Len(row) = 4
    THEN MakeProduct(row[1].s, row[2].s, "", "product", row[3].n, row[4].n,
                     "pcs", "")
    ELSE MakeProduct(row[1].s, row[2].s, row[3].s, row[4].s, row[5].n,
                     row[6].n, row[7].s, row[8].s)

RECURSIVE LoadRows(_, _)
\* the loop of load_data over the lines of a text file, appending to acc
LoadRows(rows, acc) ==
    IF rows = <<>> THEN [products |-> acc, ok |-> TRUE]
    ELSE IF RowSkipped(rows[1]) THEN LoadRows(Tail(rows), acc)
    ELSE IF RowRaises(rows[1]) THEN [products |-> acc, ok |-> FALSE]
    ELSE LoadRows(Tail(rows), Append(acc, ParseRow(rows[1])))

\* the dict load_data appends for one object of a JSON file; a number of the
\* file is an integer of the model, anything else makes float() or int()
\* raise
JsonRaises(item) ==
    \/ Get(item, "price", 0) \notin Int
    \/ Get(item, "stock", 0) \notin Int

JsonProduct(item) ==
    [id |-> Or(Get(item, "id", ""),
               Or(Get(item, "product_id", ""), "prod_uuid")),
     name |-> Get(item, "name", "Unknown"),
     category |-> Get(item, "category", ""),
     category_main |-> Get(item, "category_main", Get(item, "category", "")),
     category_sub |-> Get(item, "category_sub", ""),
     type |-> Get(item, "type", "product"),
     price |-> Get(item, "price", 0),
     stock |-> Get(item, "stock", 0),
     unit |-> Get(item, "unit", "pcs"),
     description |-> Get(item, "description", "")]

RECURSIVE LoadJson(_, _)
\* the loop of load_data over the objects of a JSON file
LoadJson(items, acc) ==
    IF items = <<>> THEN [products |-> acc, ok |-> TRUE]
    ELSE IF JsonRaises(items[1]) THEN [products |-> acc, ok |-> FALSE]
    ELSE LoadJson(Tail(items), Append(acc, JsonProduct(items[1])))

\* the header save_products writes into a CSV file
fieldnames ==
    {"id", "name", "category", "category_main", "category_sub", "type",
     "price", "stock", "unit", "description"}

\* DictWriter.writerow raises ValueError on a dict with a key that is not in
\* fieldnames
CsvWriteRaises(p) == DOMAIN p \ fieldnames # {}

\* the row DictWriter writes for one product: str() of each value, the empty
\* string for a missing key
CsvRow(p) ==
    [f \in fieldnames |->
       IF f \notin DOMAIN p THEN Text("")
       ELSE IF f = "price" THEN DecText(p[f])
       ELSE IF f = "stock" THEN IntText(p[f])
       ELSE Text(p[f])]

RECURSIVE CsvRows(_)
\* the rows written until writerow raises
CsvRows(ps) ==
    IF ps = <<>> \/ CsvWriteRaises(ps[1]) THEN <<>>
    ELSE <<CsvRow(ps[1])>> \o CsvRows(Tail(ps))

CsvRaises(row) ==
    \/ ~FloatOk(Get(row, "price", DecText(0)))
    \/ ~IntOk(Get(row, "stock", IntText(0)))

\* the dict load_data appends for one row DictReader yields
CsvProduct(row) ==
    [id |-> Or(Get(row, "id", Text("")).s,
               Or(Get(row, "product_id", Text("")).s, "prod_uuid")),
     name |-> Get(row, "name", Text("Unknown")).s,
     category |-> Get(row, "category", Text("")).s,
     category_main |->
       Get(row, "category_main", Get(row, "category", Text(""))).s,
     category_sub |-> Get(row, "category_sub", Text("")).s,
     type |-> Get(row, "type", Text("product")).s,
     price |-> Get(row, "price", DecText(0)).n,
     stock |-> Get(row, "stock", IntText(0)).n,
     unit |-> Get(row, "unit", Text("pcs")).s,
     description |-> Get(row, "description", Text("")).s]

RECURSIVE LoadCsv(_, _)
\* the loop of load_data over the rows of a CSV file
LoadCsv(rows, acc) ==
    IF rows = <<>> THEN [products |-> acc, ok |-> TRUE]
    ELSE IF CsvRaises(rows[1]) THEN [products |-> acc, ok |-> FALSE]
    ELSE LoadCsv(Tail(rows), Append(acc, CsvProduct(rows[1])))

\* self.products after load_data(): cleared, then filled until an exception;
\* the extension of the path selects the format
load_data(file) ==
    IF ~file.exists THEN [products |-> <<>>, ok |-> FALSE]
    ELSE IF file.format = "json" THEN LoadJson(file.rows, <<>>)
    ELSE IF file.format = "csv" THEN LoadCsv(file.rows, <<>>)
    ELSE LoadRows(file.rows, <<>>)

\* save_products() on a path that can be opened for writing: the file it
\* leaves and whether it returned True
save_products(ps, format) ==
    IF format = "json"
    THEN [file |-> [exists |-> TRUE, format |-> "json", rows |-> ps],
          ok |-> TRUE]
    ELSE IF format = "csv"
    THEN [file |-> [exists |-> TRUE, format |-> "csv", rows |-> CsvRows(ps)],
          ok |-> \A i \in 1..Len(ps) : ~CsvWriteRaises(ps[i])]
    ELSE [file |-> [exists |-> TRUE, format |-> "txt",
                    rows |-> FormatRows(ps)],
          ok |-> TRUE]

----------------------------------------------------------------------------
(* finalize_sale *)

\* the product the inner loop of finalize_sale stops at for one cart line:
\* the first with the line's id and of type product; 0 when there is none
StockTarget_AnyKind(ps, line) ==
    IF \E i \in 1..Len(ps) : ps[i].id = line.id
    THEN CHOOSE i \in 1..Len(ps) :
            /\ ps[i].id = line.id
            /\ \A j \in 1..(i - 1) : ps[j].id # line.id
    ELSE 0

StockTarget(ps, line) ==
    IF \E i \in 1..Len(ps) : ps[i].id = line.id /\ ps[i].type = "product"
    THEN CHOOSE i \in 1..Len(ps) :
            /\ ps[i].id = line.id /\ ps[i].type = "product"
            /\ \A j \in 1..(i - 1) :
                 ~(ps[j].id = line.id /\ ps[j].type = "product")
    ELSE 0

RECURSIVE DecrementStock(_, _)
\* step 1 of finalize_sale: product['stock'] -= cart_item['quantity']
DecrementStock(ps, c) ==
    IF c = <<>> THEN ps
    ELSE LET i == StockTarget(ps, c[1])
             ps1 == IF i = 0 THEN ps
                    ELSE [ps EXCEPT ![i].stock = @ - c[1].quantity]
         IN DecrementStock(ps1, Tail(c))

Line(tag, parts) == [tag |-> tag, parts |-> parts]

\* str(uuid.uuid4()) of the n-th sale and datetime.now().isoformat()
Uuid(n) == [k |-> "txt", n |-> n, s |-> "uuid"]
IsoTime(t) == [k |-> "txt", n |-> t, s |-> "iso"]

\* ITEM: id|name|quantity|price|type|unit
ItemLine(it) ==
    Line("ITEM", Fields(it.id) \o Fields(it.name)
                 \o <<IntText(it.quantity), DecText(it.price)>>
                 \o Fields(it.type) \o Fields(it.unit))

RECURSIVE ItemLines_Reversed(_)
ItemLines_Reversed(c) ==
    IF c = <<>> THEN <<>>
    ELSE ItemLines_Reversed(Tail(c)) \o <<ItemLine(c[1])>>

RECURSIVE ItemLines(_)
ItemLines(c) ==
    IF c = <<>> THEN <<>> ELSE <<ItemLine(c[1])>> \o ItemLines(Tail(c))

\* the block step 2 of finalize_sale writes for one sale
SaleBlock(sale_id, timestamp, c, subtotal, total, tendered) ==
    <<Line("START", <<>>), Line("ID", <<sale_id>>),
      Line("TIMESTAMP", <<timestamp>>)>>
    \o ItemLines(c)
    \o <<Line("SUBTOTAL", <<DecText(Fmt2(subtotal))>>),
         Line("TOTAL", <<DecText(Fmt2(total))>>),
         Line("TENDERED", <<Fmt2Float(tendered)>>),
         Line("END", <<>>), Line("BLANK", <<>>)>>

\* open(CONFIG['sales_file'], 'a') and the writes that follow
AppendSale_Overwrite(file, block) == block
AppendSale(file, block) == file \o block

\* the sale_record dict finalize_sale hands to ReceiptWindow
SaleRecord(sale_id, timestamp, c, subtotal, total, tendered) ==
    [sale_id |-> sale_id, timestamp |-> timestamp, items |-> c,
     subtotal |-> subtotal, tax |-> total - subtotal, total |-> total,
     cash_tendered |-> tendered]

\* Change Due on the receipt: cash_tendered - total
ChangeDue(rec) == FloatSub(rec.cash_tendered, Num(rec.total))

----------------------------------------------------------------------------
(* The ledger reader of create_sales_summary *)

\* sale = {} and items = [] before any line is read; a key of the dict is
\* a sequence, empty while the key is absent
EmptySale ==
    [sale_id |-> <<>>, timestamp |-> <<>>, subtotal |-> <<>>, total |-> <<>>,
     cash_tendered |-> <<>>]

\* parts[i] if len(parts) > i else the default
PartOr(parts, i, default) == IF Len(parts) >= i THEN parts[i] ELSE default

\* int(parts[2]) or float(parts[3]) raises ValueError on this ITEM line
ItemRaises(parts) ==
    \/ Len(parts) >= 3 /\ ~IntOk(parts[3])
    \/ Len(parts) >= 4 /\ ~FloatOk(parts[4])

\* the item dict built from an ITEM line
ReadItem(parts) ==
    [id |-> PartOr(parts, 1, Text("")).s,
     name |-> PartOr(parts, 2, Text("")).s,
     quantity |-> PartOr(parts, 3, IntText(0)).n,
     price |-> FloatOf(PartOr(parts, 4, DecText(0))),
     type |-> PartOr(parts, 5, Text("product")).s,
     unit |-> PartOr(parts, 6, Text("")).s]

\* the sale appended at a SALE END line
ReadSale(sale, items) ==
    [sale_id |-> sale.sale_id, timestamp |-> sale.timestamp,
     subtotal |-> sale.subtotal, total |-> sale.total,
     cash_tendered |-> sale.cash_tendered, items |-> items,
     tax |-> IF sale.total # <<>> /\ sale.subtotal # <<>>
             THEN FloatSub(sale.total[1], sale.subtotal[1])
             ELSE Num(0)]

\* one turn of the loop over the lines of the sales file
ReadLine(st, line) ==
    IF ~st.ok THEN st
    ELSE IF line.tag = "START"
    THEN [st EXCEPT !.sale = EmptySale, !.items = <<>>]
    ELSE IF line.tag = "ID"
    THEN [st EXCEPT !.sale.sale_id = <<line.parts[1]>>]
    ELSE IF line.tag = "TIMESTAMP"
    THEN [st EXCEPT !.sale.timestamp = <<line.parts[1]>>]
    ELSE IF line.tag = "ITEM"
    THEN IF ItemRaises(line.parts) THEN [st EXCEPT !.ok = FALSE]
         ELSE [st EXCEPT !.items = Append(@, ReadItem(line.parts))]
    ELSE IF line.tag \in {"SUBTOTAL", "TOTAL", "TENDERED"}
    THEN IF ~FloatOk(line.parts[1]) THEN [st EXCEPT !.ok = FALSE]
         ELSE IF line.tag = "SUBTOTAL"
         THEN [st EXCEPT !.sale.subtotal = <<FloatOf(line.parts[1])>>]
         ELSE IF line.tag = "TOTAL"
         THEN [st EXCEPT !.sale.total = <<FloatOf(line.parts[1])>>]
         ELSE [st EXCEPT !.sale.cash_tendered = <<FloatOf(line.parts[1])>>]
    ELSE IF line.tag = "END"
    THEN IF st.sale # EmptySale
         THEN [st EXCEPT !.sales = Append(@, ReadSale(st.sale, st.items))]
         ELSE st
    ELSE st

RECURSIVE ReadLines(_, _)
ReadLines(st, lines) ==
    IF lines = <<>> THEN st
    ELSE ReadLines(ReadLine(st, lines[1]), Tail(lines))

\* the list sales that create_sales_summary parses out of the sales file
ReadLedger(file) ==
    ReadLines([sale |-> EmptySale, items |-> <<>>, sales |-> <<>>,
               ok |-> TRUE], file).sales

\* int() or float() raises ValueError while the sales file is read
ReadRaises(file) ==
    ~ReadLines([sale |-> EmptySale, items |-> <<>>, sales |-> <<>>,
                ok |-> TRUE], file).ok

\* what create_sales_summary gets out of the sales file: the list sales, or
\* nothing when the loop raises
SummarySales(file) ==
    IF ReadRaises(file) THEN [raised |-> TRUE, sales |-> <<>>]
    ELSE [raised |-> FALSE, sales |-> ReadLedger(file)]

\* one turn of the loop of create_analytics_tab, which reads the id, the
\* timestamp and the items of a sale only
AnalyticsLine(st, line) ==
    IF ~st.ok THEN st
    ELSE IF line.tag = "START"
    THEN [st EXCEPT !.sale = EmptySale, !.items = <<>>]
    ELSE IF line.tag = "ID"
    THEN [st EXCEPT !.sale.sale_id = <<line.parts[1]>>]
    ELSE IF line.tag = "TIMESTAMP"
    THEN [st EXCEPT !.sale.timestamp = <<line.parts[1]>>]
    ELSE IF line.tag = "ITEM"
    THEN IF ItemRaises(line.parts) THEN [st EXCEPT !.ok = FALSE]
         ELSE [st EXCEPT !.items = Append(@, ReadItem(line.parts))]
    ELSE IF line.tag = "END"
    THEN IF st.sale # EmptySale
         THEN [st EXCEPT !.sales =
                 Append(@, [sale_id |-> st.sale.sale_id,
                            timestamp |-> st.sale.timestamp,
                            items |-> st.items])]
         ELSE st
    ELSE st

RECURSIVE AnalyticsLines(_, _)
AnalyticsLines(st, lines) ==
    IF lines = <<>> THEN st
    ELSE AnalyticsLines(AnalyticsLine(st, lines[1]), Tail(lines))

\* what create_analytics_tab gets out of the sales file
AnalyticsSales(file) ==
    LET st == AnalyticsLines([sale |-> EmptySale, items |-> <<>>,
                              sales |-> <<>>, ok |-> TRUE], file)
    IN IF st.ok THEN [raised |-> FALSE, sales |-> st.sales]
       ELSE [raised |-> TRUE, sales |-> <<>>]

\* a + b on floats
FloatAdd(a, b) ==
    IF a.kind = "num" /\ b.kind = "num" THEN Num(a.v + b.v) ELSE NaN

RECURSIVE SumTotals(_)
\* sum(s['total'] for s in sales)
SumTotals(sales) ==
    IF sales = <<>> THEN Num(0)
    ELSE FloatAdd(sales[1].total[1], SumTotals(Tail(sales)))

\* the figures and the log the Sales Summary tab is built with
SummaryReport(sales) ==
    [total_sales |-> SumTotals(sales), num_sales |-> Len(sales),
     log |-> sales]

\* timestamp[:10], the date portion; the clock of the model counts days, so
\* two timestamps of one tick have one date
DatePart(ts) ==
    IF ts.s = "iso" THEN [k |-> "txt", n |-> ts.n, s |-> "date"]
    ELSE Text(SubSeq(ts.s, 1, IF Len(ts.s) < 10 THEN Len(ts.s) ELSE 10))

\* sale.get('timestamp', '')[:10]
DateOf(sale) ==
    IF sale.timestamp = <<>> THEN Text("") ELSE DatePart(sale.timestamp[1])

RECURSIVE AllItems(_)
\* the items of all sales, in file order
AllItems(sales) ==
    IF sales = <<>> THEN <<>> ELSE sales[1].items \o AllItems(Tail(sales))

RECURSIVE QuantityOf(_, _, _)
\* the count a Counter holds under key after counter[item[field]] +=
\* item['quantity'] over the items
QuantityOf(items, field, key) ==
    IF items = <<>> THEN 0
    ELSE (IF items[1][field] = key THEN items[1].quantity ELSE 0)
         + QuantityOf(Tail(items), field, key)

\* the Counter over item[field]
QuantityBy(items, field) ==
    [key \in {items[i][field] : i \in 1..Len(items)} |->
       QuantityOf(items, field, key)]

RECURSIVE TotalOf(_, _)
\* the sum date_counter holds under date after date_counter[date] +=
\* sale.get('total', 0.0) over the sales
TotalOf(sales, date) ==
    IF sales = <<>> THEN 0
    ELSE (IF DateOf(sales[1]) = date THEN Get(sales[1], "total", 0) ELSE 0)
         + TotalOf(Tail(sales), date)

\* date_counter of create_analytics_tab
sales_by_day(sales) ==
    [date \in {DateOf(sales[i]) : i \in 1..Len(sales)} |->
       TotalOf(sales, date)]

\* the three tables the Analytics tab is built with (fewer than ten names)
AnalyticsReport(sales) ==
    [top_products |-> QuantityBy(AllItems(sales), "name"),
     by_type |-> QuantityBy(AllItems(sales), "type"),
     by_day |-> sales_by_day(sales)]

\* the tabs create_notebook builds from a sales file that reads without error
BuiltTabs(file) ==
    [summary |-> <<SummaryReport(SummarySales(file).sales)>>,
     analytics |-> <<AnalyticsReport(AnalyticsSales(file).sales)>>]

NoTabs == [summary |-> <<>>, analytics |-> <<>>]

----------------------------------------------------------------------------
(* PaymentDialog.process *)

\* float(self.tendered_entry.get()) raises ValueError
InvalidInput(entry) == ~FloatOk(entry)

\* tendered < self.total
Insufficient(tendered, total) == FloatLess(tendered, Num(total))


----------------------------------------------------------------------------
(* Inputs *)

RowCoffee ==
    <<Text("p1"), Text("Coffee"), Text("Cafe"), Text("product"),
      DecText(25000), IntText(1), Text("pcs"), Text("")>>
RowRepair ==
    <<Text("p2"), Text("Repair"), Text("Service"), Text("service"),
      DecText(199900), IntText(0), Text(""), Text("")>>
RowCable ==
    <<Text("p3"), Text("Cable"), Text("IT"), Text("product"),
      DecText(10000), IntText(2), Text("m"), Text("")>>
\* a second row with the identifier p1, out of stock
RowTea ==
    <<Text("p1"), Text("Tea"), Text("Cafe"), Text("product"),
      DecText(10000), IntText(0), Text("pcs"), Text("")>>
\* a legacy row: id|name|price|stock
RowGum == <<Text("p2"), Text("Gum"), DecText(5000), IntText(1)>>
\* a row whose price is not a number, and a row of three fields
RowBadPrice ==
    <<Text("p3"), Text("Mug"), Text(""), Text("product"),
      Text("abc"), IntText(1), Text("pcs"), Text("")>>
RowShort == <<Text("p3"), Text("Mug"), DecText(30000)>>

\* the paths CONFIG['products_file'] takes: its default and the path picked
\* in a file dialog
DefaultPath == "datas/products.txt"
ImsPath == "ims"

File(rows) == [exists |-> TRUE, format |-> "txt", rows |-> rows]
NoFile == [exists |-> FALSE, format |-> "txt", rows |-> <<>>]

\* a sale block written by an earlier session
OldBlock ==
    SaleBlock(Uuid(0), IsoTime(0),
              <<[id |-> "p1", name |-> "Coffee", type |-> "product",
                 unit |-> "pcs", price |-> 25000, quantity |-> 1]>>,
              25000, 27000, Num(30000))

\* what the application may find when it starts: datas/products.txt,
\* datas/sales.txt, and whether each can be written
Installations ==
    {[products_file |-> File(<<RowCoffee, RowRepair, RowCable>>),
      sales_file |-> <<>>,
      writable |-> [sales |-> TRUE, products |-> TRUE,
                   ims |-> TRUE]],
     [products_file |-> File(<<RowCoffee, RowTea, RowRepair>>),
      sales_file |-> OldBlock,
      writable |-> [sales |-> TRUE, products |-> TRUE,
                   ims |-> TRUE]],
     [products_file |-> File(<<RowGum, RowShort, RowBadPrice, RowRepair>>),
      sales_file |-> OldBlock,
      writable |-> [sales |-> FALSE, products |-> TRUE,
                   ims |-> TRUE]],
     [products_file |-> File(<<RowRepair, RowCoffee>>),
      sales_file |-> <<>>,
      writable |-> [sales |-> TRUE, products |-> FALSE,
                   ims |-> TRUE]],
     [products_file |-> NoFile,
      sales_file |-> <<>>,
      writable |-> [sales |-> TRUE, products |-> TRUE,
                   ims |-> TRUE]]}

\* what the operator may type as cash tendered
TenderedInputs == {Text("abc"), NanText, DecText(50000), IntText(300000)}

NoOp == [name |-> "init", item |-> <<>>, sel |-> {}, entry |-> Text(""),
         msg |-> "none", ret |-> <<>>]
Op(name, msg) == [NoOp EXCEPT !.name = name, !.msg = msg]

----------------------------------------------------------------------------
(* POSApp: initial state and handlers *)

\* the file at a path, whether it can be opened for writing, and the format
\* its extension stands for
FileAt(path) == IF path = ImsPath THEN ims_file ELSE products_file
WritableAt(path) == IF path = ImsPath THEN writable.ims ELSE writable.products

\* the files after a write to the path
FilesAfter(path, file) ==
    [products_file |-> IF path = DefaultPath THEN file ELSE products_file,
     ims_file |-> IF path = ImsPath THEN file ELSE ims_file]

\* variant: the path becomes the active one before the file is written
path_after_save_Early(active, path, ok) == path

\* CONFIG['products_file'] after save_products(path): assigned behind the
\* write, so only when no exception was raised
path_after_save(active, path, ok) == IF ok THEN path ELSE active

\* CONFIG['products_file'] after load_data(path): assigned behind the loop
path_after_load(active, path, ok) == IF ok THEN path ELSE active

\* save_products(path) as a whole: the files, the active path and the
\* returned value; open() raises when the path cannot be written
SaveTo(ps, path, format) ==
    IF WritableAt(path)
    THEN LET sv == save_products(ps, format) IN
         [files |-> FilesAfter(path, sv.file), ok |-> sv.ok,
          active |-> path_after_save(active_path, path, sv.ok)]
    ELSE [files |-> [products_file |-> products_file, ims_file |-> ims_file],
          ok |-> FALSE,
          active |-> path_after_save(active_path, path, FALSE)]

\* POSApp.__init__: empty cart, then load_data() and update_product_display()
AppInit ==
    /\ \E inst \in Installations :
         /\ products_file = inst.products_file
         /\ sales_file = inst.sales_file
         /\ writable = inst.writable
    /\ ims_file = NoFile
    /\ active_path = DefaultPath
    /\ tabs = BuiltTabs(sales_file)
    /\ products = load_data(products_file).products
    /\ product_buttons = products
    /\ cart = <<>>
    /\ pc = "idle"
    /\ dialog_total = 0
    /\ receipt = <<>>
    /\ sale_seq = 0
    /\ now = 1
    /\ op = Op("init", IF load_data(products_file).ok THEN "none"
                       ELSE "Error Loading Data")

\* the session is followed until MaxSales sales have been finalized
Open == mode = "app" /\ sale_seq < MaxSales

\* a product button is clicked: add_to_cart(product)
AddToCart ==
    /\ Open /\ pc = "idle"
    /\ \E b \in 1..Len(product_buttons) :
         LET p == product_buttons[b] IN
         /\ HasLine(cart, p.id) => cart[LineOf(cart, p.id)].quantity < MaxQty
         /\ cart' = add_to_cart(cart, p)
         /\ op' = [Op("add_to_cart", add_to_cart_msg(cart, p))
                     EXCEPT !.item = <<p>>]
    /\ UNCHANGED <<mode, products, product_buttons, sales_file, products_file,
                   writable, pc, dialog_total, receipt, sale_seq, now>>
    /\ UNCHANGED mgrVars
    /\ UNCHANGED catVars
    /\ UNCHANGED tabs
    /\ UNCHANGED ioVars

\* Remove Selected Item, with the rows sel selected in the cart tree
RemoveFromCart ==
    /\ Open /\ pc = "idle"
    /\ \E sel \in SUBSET CartIds(cart) :
         /\ cart' = IF sel = {} THEN cart ELSE remove_from_cart(cart, sel)
         /\ op' = [Op("remove_from_cart",
                      IF sel = {} THEN "No Selection" ELSE "none")
                     EXCEPT !.sel = sel]
    /\ UNCHANGED <<mode, products, product_buttons, sales_file, products_file,
                   writable, pc, dialog_total, receipt, sale_seq, now>>
    /\ UNCHANGED mgrVars
    /\ UNCHANGED catVars
    /\ UNCHANGED tabs
    /\ UNCHANGED ioVars

\* Proceed to Checkout: checkout(), which opens the PaymentDialog
Checkout ==
    /\ Open /\ pc = "idle"
    /\ IF cart = <<>>
       THEN /\ op' = Op("checkout", "Empty Cart")
            /\ UNCHANGED <<pc, dialog_total>>
       ELSE /\ op' = Op("checkout", "none")
            /\ pc' = "payment"
            /\ dialog_total' = TotalAmount(cart)
    /\ UNCHANGED <<mode, products, product_buttons, cart, sales_file,
                   products_file, writable, receipt, sale_seq, now>>
    /\ UNCHANGED mgrVars
    /\ UNCHANGED catVars
    /\ UNCHANGED tabs
    /\ UNCHANGED ioVars

\* the PaymentDialog is closed without paying
ClosePayment ==
    /\ Open /\ pc = "payment"
    /\ pc' = "idle"
    /\ dialog_total' = 0
    /\ op' = Op("close_payment", "none")
    /\ UNCHANGED <<mode, products, product_buttons, cart, sales_file,
                   products_file, writable, receipt, sale_seq, now>>
    /\ UNCHANGED mgrVars
    /\ UNCHANGED catVars
    /\ UNCHANGED tabs
    /\ UNCHANGED ioVars

\* variant: when the sales file cannot be written the handler stops behind
\* the message box, the stock decremented in memory only
FinalizeSale_StopOnLogError(total, tendered) ==
    LET sale_id == Uuid(sale_seq + 1)
        timestamp == IsoTime(now)
        stocked == DecrementStock(products, cart)
        subtotal == SumLines(cart)
        sv == SaveTo(stocked, active_path, FileAt(active_path).format)
    IN
    /\ products' = stocked
    /\ sale_seq' = sale_seq + 1
    /\ IF writable.sales
       THEN /\ sales_file' =
                 AppendSale(sales_file,
                   SaleBlock(sale_id, timestamp, cart, subtotal, total,
                             tendered))
            /\ products_file' = sv.files.products_file
            /\ ims_file' = sv.files.ims_file
            /\ active_path' = sv.active
            /\ receipt' = <<SaleRecord(sale_id, timestamp, cart, subtotal,
                                       total, tendered)>>
            /\ cart' = <<>>
            /\ product_buttons' = stocked
       ELSE UNCHANGED <<sales_file, products_file, ims_file, active_path,
                        receipt, cart, product_buttons>>

\* finalize_sale(total, tendered), the callback of PaymentDialog.process
FinalizeSale(total, tendered) ==
    LET sale_id == Uuid(sale_seq + 1)
        timestamp == IsoTime(now)
        stocked == DecrementStock(products, cart)
        subtotal == SumLines(cart)
        sv == SaveTo(stocked, active_path, FileAt(active_path).format)
    IN
    /\ products' = stocked
    /\ sales_file' =
         IF writable.sales
         THEN AppendSale(sales_file,
                SaleBlock(sale_id, timestamp, cart, subtotal, total, tendered))
         ELSE sales_file
    /\ products_file' = sv.files.products_file
    /\ ims_file' = sv.files.ims_file
    /\ active_path' = sv.active
    /\ receipt' =
         <<SaleRecord(sale_id, timestamp, cart, subtotal, total, tendered)>>
    /\ cart' = <<>>
    /\ product_buttons' = stocked
    /\ sale_seq' = sale_seq + 1

\* the last message box of a payment that went through
FinalizeMsg ==
    IF ~SaveTo(DecrementStock(products, cart), active_path,
               FileAt(active_path).format).ok
    THEN "Error Saving Data"
    ELSE IF ~writable.sales THEN "Sale Log Error"
    ELSE "Payment Complete"

\* Process Payment (or Return) with entry typed as cash tendered
Process ==
    /\ Open /\ pc = "payment"
    /\ \E entry \in TenderedInputs :
         IF InvalidInput(entry)
         THEN /\ op' = [Op("process", "Invalid Input") EXCEPT !.entry = entry]
              /\ UNCHANGED <<products, product_buttons, cart, sales_file,
                             products_file, ims_file, active_path, pc,
                             dialog_total, receipt, sale_seq>>
         ELSE IF Insufficient(FloatOf(entry), dialog_total)
         THEN /\ op' = [Op("process", "Insufficient Funds")
                          EXCEPT !.entry = entry]
              /\ UNCHANGED <<products, product_buttons, cart, sales_file,
                             products_file, ims_file, active_path, pc,
                             dialog_total, receipt, sale_seq>>
         ELSE /\ FinalizeSale(dialog_total, FloatOf(entry))
              /\ op' = [Op("finalize_sale", FinalizeMsg)
                          EXCEPT !.entry = entry]
              /\ pc' = "idle"
              /\ dialog_total' = 0
    /\ UNCHANGED <<mode, writable, now>>
    /\ UNCHANGED mgrVars
    /\ UNCHANGED catVars
    /\ UNCHANGED tabs

----------------------------------------------------------------------------
(* ProductManager: a modal window over the list POSApp.products itself *)

ProductIds(ps) == {ps[i].id : i \in 1..Len(ps)}

\* the new_data dict EditProductDialog.save builds
DialogItem(id, name, category, subcategory, type, price, stock, unit, description) ==
    [id |-> id, name |-> name, category |-> category,
     subcategory |-> subcategory,
     type |-> type, price |-> price,
     stock |-> IF type = "product" THEN stock ELSE 0,
     unit |-> IF type = "product" THEN unit ELSE "",
     description |-> description]

\* what the operator may enter in the Add New Item dialog
NewItems ==
    {DialogItem("p1", "Decaf", "Cafe", "Hot", "product", 30000, 1, "pcs", "")}

\* add_product_callback: self.products.append(new_data)
add_product_callback(ps, new_data) == Append(ps, new_data)

\* delete_checked_products: keep what is not checked
delete_checked_products(ps, checked) == Without(ps, checked)

\* Manage Products can be pressed whenever no PaymentDialog is open
Managing == mode = "app" /\ pc = "idle"

\* Add New Item, saved from the dialog
ManagerAdd ==
    /\ Managing
    /\ Len(products) < MaxProducts
    /\ \E new_data \in NewItems :
         /\ products' = add_product_callback(products, new_data)
         /\ op' = [Op("add_product", "none") EXCEPT !.item = <<new_data>>]
    /\ UNCHANGED <<mode, product_buttons, cart, sales_file, products_file,
                   writable, pc, dialog_total, receipt, sale_seq, now>>
    /\ UNCHANGED mgrVars
    /\ UNCHANGED catVars
    /\ UNCHANGED tabs
    /\ UNCHANGED ioVars

\* variant: deleting an item also strikes its ITEM lines from the ledger
ManagerDelete_Cascade ==
    /\ Managing
    /\ \E checked \in SUBSET ProductIds(products) :
         /\ checked # {}
         /\ products' = delete_checked_products(products, checked)
         /\ sales_file' =
              SelectSeq(sales_file,
                        LAMBDA l : ~(l.tag = "ITEM" /\ l.parts[1].s \in checked))
         /\ op' = [Op("delete_checked_products", "none")
                     EXCEPT !.sel = checked]
    /\ UNCHANGED <<mode, product_buttons, cart, products_file,
                   writable, pc, dialog_total, receipt, sale_seq, now>>
    /\ UNCHANGED mgrVars
    /\ UNCHANGED catVars
    /\ UNCHANGED tabs
    /\ UNCHANGED ioVars

\* Delete Checked, confirmed, with the ids in checked ticked
ManagerDelete ==
    /\ Managing
    /\ \E checked \in SUBSET ProductIds(products) :
         /\ checked # {}
         /\ products' = delete_checked_products(products, checked)
         /\ op' = [Op("delete_checked_products", "none")
                     EXCEPT !.sel = checked]
    /\ UNCHANGED <<mode, product_buttons, cart, sales_file, products_file,
                   writable, pc, dialog_total, receipt, sale_seq, now>>
    /\ UNCHANGED mgrVars
    /\ UNCHANGED catVars
    /\ UNCHANGED tabs
    /\ UNCHANGED ioVars

\* Save to File: save_products(), then refresh_main_window() reloads the
\* active file
ManagerSave ==
    /\ Managing
    /\ LET sv == SaveTo(products, active_path, FileAt(active_path).format)
           ld == load_data(IF active_path = ImsPath THEN sv.files.ims_file
                           ELSE sv.files.products_file)
       IN
       /\ products_file' = sv.files.products_file
       /\ ims_file' = sv.files.ims_file
       /\ active_path' = sv.active
       /\ IF sv.ok
          THEN /\ products' = ld.products
               /\ product_buttons' = ld.products
               /\ op' = Op("save", IF ld.ok THEN "Success"
                                   ELSE "Error Loading Data")
          ELSE /\ op' = Op("save", "Error")
               /\ UNCHANGED <<products, product_buttons>>
    /\ UNCHANGED <<mode, cart, sales_file, writable, pc, dialog_total,
                   receipt, sale_seq, now>>
    /\ UNCHANGED mgrVars
    /\ UNCHANGED catVars
    /\ UNCHANGED tabs

\* Export to IMS with a path picked: save_products(file_path)
ExportToIms ==
    /\ Managing
    /\ LET sv == SaveTo(products, ImsPath, ims_file.format) IN
       /\ products_file' = sv.files.products_file
       /\ ims_file' = sv.files.ims_file
       /\ active_path' = sv.active
       /\ op' = [Op("export_to_ims", IF sv.ok THEN "none"
                                      ELSE "Error Saving Data")
                   EXCEPT !.ret = <<sv.ok>>]
    /\ UNCHANGED <<mode, products, product_buttons, cart, sales_file,
                   writable, pc, dialog_total, receipt, sale_seq, now>>
    /\ UNCHANGED mgrVars
    /\ UNCHANGED catVars
    /\ UNCHANGED tabs

\* Import from IMS with a path picked: load_data(file_path), save_products()
\* to the active file, refresh_main_window()
ImportFromIms ==
    /\ Managing
    /\ ims_file.exists
    /\ LET ld == load_data(ims_file)
           active == path_after_load(active_path, ImsPath, ld.ok)
           written == WritableAt(active)
           sv == save_products(ld.products, FileAt(active).format)
           files == IF written THEN FilesAfter(active, sv.file)
                    ELSE [products_file |-> products_file,
                          ims_file |-> ims_file]
           re == load_data(IF active = ImsPath THEN files.ims_file
                           ELSE files.products_file)
       IN
       /\ products_file' = files.products_file
       /\ ims_file' = files.ims_file
       /\ active_path' = active
       /\ products' = re.products
       /\ product_buttons' = re.products
       /\ op' = [Op("import_from_ims",
                    IF ~ld.ok \/ ~re.ok THEN "Error Loading Data"
                    ELSE IF ~(written /\ sv.ok) THEN "Error Saving Data"
                    ELSE "none")
                   EXCEPT !.ret = <<ld.ok>>, !.item = ld.products]
    /\ UNCHANGED <<mode, cart, sales_file, writable, pc, dialog_total,
                   receipt, sale_seq, now>>
    /\ UNCHANGED mgrVars
    /\ UNCHANGED catVars
    /\ UNCHANGED tabs

----------------------------------------------------------------------------
(* POSManager *)

\* Product objects a caller may hand to POSManager.add_to_cart
MgrProducts ==
    {[product_id |-> "p1", name |-> "Coffee", category |-> "Cafe",
      price |-> 25000, stock |-> 1, description |-> "", type |-> "product",
      unit |-> "pcs"],
     [product_id |-> "p2", name |-> "Repair", category |-> "Service",
      price |-> 199900, stock |-> 0, description |-> "", type |-> "service",
      unit |-> ""]}

\* quantity arguments a caller may pass
MgrQuantities == {-1, 0, 1, 2}

\* cash_tendered arguments a caller may pass
MgrCash == {Num(50000), Num(1000000), NaN}

MgrCartIds(c) == {c[i].product.product_id : i \in 1..Len(c)}

MgrHasLine(c, id) == \E i \in 1..Len(c) : c[i].product.product_id = id

MgrLineOf(c, id) == CHOOSE i \in 1..Len(c) :
    /\ c[i].product.product_id = id
    /\ \A j \in 1..(i - 1) : c[j].product.product_id # id

mgr_add_to_cart_Set(c, product, quantity) ==
    IF MgrHasLine(c, product.product_id)
    THEN [c EXCEPT ![MgrLineOf(c, product.product_id)].quantity = quantity]
    ELSE Append(c, [product |-> product, quantity |-> quantity])

\* POSManager.add_to_cart(product, quantity)
mgr_add_to_cart(c, product, quantity) ==
    IF MgrHasLine(c, product.product_id)
    THEN [c EXCEPT ![MgrLineOf(c, product.product_id)].quantity = @ + quantity]
    ELSE Append(c, [product |-> product, quantity |-> quantity])

\* POSManager.remove_from_cart(product_id): del self.cart[i] at the first match
mgr_remove_from_cart(c, id) ==
    IF MgrHasLine(c, id)
    THEN LET i == MgrLineOf(c, id) IN
         SubSeq(c, 1, i - 1) \o SubSeq(c, i + 1, Len(c))
    ELSE c

clear_cart_Kept(c) == c

\* POSManager.clear_cart
clear_cart(c) == <<>>

RECURSIVE get_cart_total(_)
\* sum(item.product.price * item.quantity for item in self.cart)
get_cart_total(c) ==
    IF c = <<>> THEN 0
    ELSE c[1].product.price * c[1].quantity + get_cart_total(Tail(c))

\* the transaction dict of POSManager.checkout; CartItem.to_dict copies
\* the product's fields and the quantity
Transaction(c, total, cash_tendered) ==
    [items |-> c, total |-> total, cash_tendered |-> cash_tendered,
     change |-> FloatSub(cash_tendered, Num(total))]

\* cash_tendered < total
MgrInsufficient(cash_tendered, total) == FloatLess(cash_tendered, Num(total))

\* the POSManager is followed until MaxSales transactions have been recorded
MgrOpen == mode = "mgr" /\ Len(m_sales) < MaxSales

\* POSManager.__init__
MgrInit ==
    /\ m_cart = <<>>
    /\ m_sales = <<>>

MgrAddToCart ==
    /\ MgrOpen
    /\ \E product \in MgrProducts, quantity \in MgrQuantities :
         /\ \A i \in 1..Len(mgr_add_to_cart(m_cart, product, quantity)) :
              mgr_add_to_cart(m_cart, product, quantity)[i].quantity
                \in -1..MaxQty
         /\ m_cart' = mgr_add_to_cart(m_cart, product, quantity)
         /\ op' = [Op("mgr_add_to_cart", "none") EXCEPT
                     !.item = <<[product |-> product, quantity |-> quantity]>>]
    /\ UNCHANGED <<mode, writable, m_sales>>
    /\ UNCHANGED appVars
    /\ UNCHANGED catVars

MgrRemoveFromCart ==
    /\ MgrOpen
    /\ \E id \in {"p1", "p2"} :
         /\ m_cart' = mgr_remove_from_cart(m_cart, id)
         /\ op' = [Op("mgr_remove_from_cart", "none") EXCEPT
                     !.sel = {id}, !.ret = <<MgrHasLine(m_cart, id)>>]
    /\ UNCHANGED <<mode, writable, m_sales>>
    /\ UNCHANGED appVars
    /\ UNCHANGED catVars

MgrClearCart ==
    /\ MgrOpen
    /\ m_cart' = clear_cart(m_cart)
    /\ op' = Op("mgr_clear_cart", "none")
    /\ UNCHANGED <<mode, writable, m_sales>>
    /\ UNCHANGED appVars
    /\ UNCHANGED catVars

\* POSManager.checkout(cash_tendered)
MgrCheckout ==
    /\ MgrOpen
    /\ \E cash_tendered \in MgrCash :
         LET total == get_cart_total(m_cart) IN
         IF MgrInsufficient(cash_tendered, total)
         THEN /\ op' = [Op("mgr_checkout", "none") EXCEPT
                          !.item = <<cash_tendered>>]
              /\ UNCHANGED <<m_cart, m_sales>>
         ELSE /\ m_sales' = Append(m_sales,
                               Transaction(m_cart, total, cash_tendered))
              /\ m_cart' = clear_cart(m_cart)
              /\ op' = [Op("mgr_checkout", "none") EXCEPT
                          !.item = <<cash_tendered>>,
                          !.ret = <<Transaction(m_cart, total, cash_tendered)>>]
    /\ UNCHANGED <<mode, writable>>
    /\ UNCHANGED appVars
    /\ UNCHANGED catVars

----------------------------------------------------------------------------
(* The specification *)

\* the POSApp variables when only a POSManager is in use
AppUnused ==
    /\ products_file = NoFile
    /\ ims_file = NoFile
    /\ active_path = DefaultPath
    /\ tabs = NoTabs
    /\ sales_file = <<>>
    /\ writable = [sales |-> TRUE, products |-> TRUE,
                   ims |-> TRUE]
    /\ products = <<>>
    /\ product_buttons = <<>>
    /\ cart = <<>>
    /\ pc = "idle"
    /\ dialog_total = 0
    /\ receipt = <<>>
    /\ sale_seq = 0
    /\ now = 1
    /\ op = NoOp

Init ==
    /\ mode \in {"app", "mgr"}
    /\ MgrInit
    /\ CategoriesInit
    /\ IF mode = "app" THEN AppInit ELSE AppUnused

Next ==
    \/ AddToCart
    \/ RemoveFromCart
    \/ Checkout
    \/ ClosePayment
    \/ Process
    \/ ManagerSave
    \/ ManagerAdd
    \/ MgrAddToCart
    \/ MgrRemoveFromCart
    \/ MgrClearCart
    \/ MgrCheckout

Spec == Init /\ [][Next]_vars

----------------------------------------------------------------------------
(* Selling while the catalog is managed: items are deleted and added again *)

\* a shop with one item, one earlier sale in the ledger, files writable
CatalogInstallation ==
    [products_file |-> File(<<RowCoffee>>),
     sales_file |-> OldBlock,
     writable |-> [sales |-> TRUE, products |-> TRUE,
                   ims |-> TRUE]]

InitCatalog ==
    /\ mode = "app"
    /\ MgrInit
    /\ CategoriesInit
    /\ products_file = CatalogInstallation.products_file
    /\ sales_file = CatalogInstallation.sales_file
    /\ writable = CatalogInstallation.writable
    /\ ims_file = NoFile
    /\ active_path = DefaultPath
    /\ tabs = BuiltTabs(sales_file)
    /\ products = load_data(products_file).products
    /\ product_buttons = products
    /\ cart = <<>>
    /\ pc = "idle"
    /\ dialog_total = 0
    /\ receipt = <<>>
    /\ sale_seq = 0
    /\ now = 1
    /\ op = Op("init", "none")

NextCatalog ==
    \/ AddToCart
    \/ Checkout
    \/ Process
    \/ ManagerAdd
    \/ ManagerDelete
    \/ ManagerSave

SpecCatalog == InitCatalog /\ [][NextCatalog]_vars

----------------------------------------------------------------------------
(* Selling while catalogs are imported and exported *)

\* a JSON catalog as an inventory system exports it: a sub-category, and a
\* name that holds the separator of the text formats
ImsJson ==
    [exists |-> TRUE, format |-> "json",
     rows |-> <<[id |-> "p4", name |-> "Fish|Chips", category |-> "Food",
                 category_main |-> "Food", category_sub |-> "Fried",
                 type |-> "product", price |-> 45000, stock |-> 2,
                 unit |-> "pcs", description |-> ""]>>]

\* a text catalog with a row of three fields between two rows that load
ImsShortRow == File(<<RowCable, RowShort, RowRepair>>)

\* a text catalog with a row whose price is not a number behind a row that
\* loads
ImsBadRow == File(<<RowGum, RowBadPrice, RowRepair>>)

\* a path picked for an export at which no file exists yet
NoFileOf(format) == [exists |-> FALSE, format |-> format, rows |-> <<>>]

ImsFiles ==
    {ImsJson, ImsShortRow, ImsBadRow}
    \cup {NoFileOf(format) : format \in {"txt", "json", "csv"}}

InitFiles ==
    /\ mode = "app"
    /\ MgrInit
    /\ CategoriesInit
    /\ products_file = File(<<RowCoffee>>)
    /\ sales_file = <<>>
    /\ ims_file \in ImsFiles
    /\ active_path = DefaultPath
    /\ tabs = BuiltTabs(sales_file)
    /\ writable \in [sales : {TRUE}, products : {TRUE}, ims : BOOLEAN]
    /\ products = load_data(products_file).products
    /\ product_buttons = products
    /\ cart = <<>>
    /\ pc = "idle"
    /\ dialog_total = 0
    /\ receipt = <<>>
    /\ sale_seq = 0
    /\ now = 1
    /\ op = Op("init", "none")

NextFiles ==
    \/ AddToCart
    \/ Checkout
    \/ Process
    \/ ManagerSave
    \/ ExportToIms
    \/ ImportFromIms

SpecFiles == InitFiles /\ [][NextFiles]_vars

----------------------------------------------------------------------------
(* Startup over a sales file whose last block was cut short *)

\* most blocks a sales file holds in front of its last one
MaxBlocks == 2

\* a sale of two lines as an earlier session wrote it
TwoLineBlock ==
    SaleBlock(Uuid(9), IsoTime(0),
              <<[id |-> "p2", name |-> "Repair", type |-> "service",
                 unit |-> "", price |-> 199900, quantity |-> 1],
                [id |-> "p3", name |-> "Cable", type |-> "product",
                 unit |-> "m", price |-> 10000, quantity |-> 2]>>,
              219900, 237492, Num(300000))

Blocks == {OldBlock, TwoLineBlock}

RECURSIVE Ledgers(_)
\* the sales files made of at most n whole blocks
Ledgers(n) ==
    IF n = 0 THEN {<<>>}
    ELSE Ledgers(n - 1)
         \cup {l \o b : l \in Ledgers(n - 1), b \in Blocks}

\* a line the write of which stopped: inside its marker or tag, behind its
\* j-th field, or behind the separator that follows its j-th field
CutLines(line) ==
    {Line("OTHER", <<>>)}
    \cup {Line(line.tag, SubSeq(line.parts, 1, j)) : j \in 1..Len(line.parts)}
    \cup {Line(line.tag, SubSeq(line.parts, 1, j) \o <<Text("")>>) :
            j \in 0..(Len(line.parts) - 1)}

\* the index of the SALE END line of a block
EndOf(block) == CHOOSE i \in 1..Len(block) : block[i].tag = "END"

\* a block the write of which stopped before its SALE END line was complete
CutBlocks(block) ==
    {SubSeq(block, 1, n) : n \in 1..(EndOf(block) - 1)}
    \cup UNION {{SubSeq(block, 1, n) \o <<cut>> :
                   cut \in CutLines(block[n + 1])} :
                n \in 1..(EndOf(block) - 1)}

\* the sales files the application may find: whole blocks, then possibly a
\* block that was cut short
SalesFiles ==
    Ledgers(MaxBlocks)
    \cup {l \o c : l \in Ledgers(MaxBlocks),
                   c \in UNION {CutBlocks(b) : b \in Blocks}}

\* POSApp.__init__ up to create_notebook, which builds the report tabs from
\* the sales file before load_data runs
InitStartup ==
    /\ mode = "startup"
    /\ MgrInit
    /\ CategoriesInit
    /\ sales_file \in SalesFiles
    /\ products_file = NoFile
    /\ ims_file = NoFile
    /\ active_path = DefaultPath
    /\ tabs = NoTabs
    /\ writable = [sales |-> TRUE, products |-> TRUE,
                   ims |-> TRUE]
    /\ products = <<>>
    /\ product_buttons = <<>>
    /\ cart = <<>>
    /\ pc = "create_sales_summary"
    /\ dialog_total = 0
    /\ receipt = <<>>
    /\ sale_seq = 0
    /\ now = 1
    /\ op = NoOp

\* create_sales_summary: an exception leaves __init__ and ends the start
CreateSalesSummary ==
    /\ mode = "startup" /\ pc = "create_sales_summary"
    /\ LET out == SummarySales(sales_file) IN
       /\ op' = [Op("create_sales_summary",
                    IF out.raised THEN "ValueError" ELSE "none")
                   EXCEPT !.ret = <<out.sales>>]
       /\ tabs' = IF out.raised THEN tabs
                  ELSE [tabs EXCEPT !.summary = <<SummaryReport(out.sales)>>]
       /\ pc' = IF out.raised THEN "raised" ELSE "create_analytics_tab"
    /\ UNCHANGED <<mode, products, product_buttons, cart, sales_file,
                   products_file, writable, dialog_total, receipt, sale_seq,
                   now>>
    /\ UNCHANGED mgrVars
    /\ UNCHANGED catVars
    /\ UNCHANGED ioVars

\* create_analytics_tab
CreateAnalyticsTab ==
    /\ mode = "startup" /\ pc = "create_analytics_tab"
    /\ LET out == AnalyticsSales(sales_file) IN
       /\ op' = [Op("create_analytics_tab",
                    IF out.raised THEN "ValueError" ELSE "none")
                   EXCEPT !.ret = <<out.sales>>]
       /\ tabs' = IF out.raised THEN tabs
                  ELSE [tabs EXCEPT
                          !.analytics = <<AnalyticsReport(out.sales)>>]
       /\ pc' = IF out.raised THEN "raised" ELSE "load_data"
    /\ UNCHANGED <<mode, products, product_buttons, cart, sales_file,
                   products_file, writable, dialog_total, receipt, sale_seq,
                   now>>
    /\ UNCHANGED mgrVars
    /\ UNCHANGED catVars
    /\ UNCHANGED ioVars

NextStartup ==
    \/ CreateSalesSummary
    \/ CreateAnalyticsTab

SpecStartup == InitStartup /\ [][NextStartup]_vars

----------------------------------------------------------------------------
(* Importing the module over a custom categories file *)

\* most sub-categories an entry of the custom file lists
MaxSubs == 2

\* the mains and subs a custom file may name: built-in ones and new ones
CustomMains == {"Service", "Toys"}
CustomSubs == {"Other", "Repair", "Robots"}

RECURSIVE SubLists(_)
\* the lists of at most n subs, repeats allowed
SubLists(n) ==
    IF n = 0 THEN {<<>>}
    ELSE SubLists(n - 1)
         \cup {Append(l, sub) : l \in SubLists(n - 1), sub \in CustomSubs}

\* a JSON object has each key once; its entries come in file order
CustomMappings ==
    {<<>>}
    \cup {<<[main |-> m, subs |-> l]>> :
            m \in CustomMains, l \in SubLists(MaxSubs)}
    \cup {<<[main |-> m[1], subs |-> l1], [main |-> m[2], subs |-> l2]>> :
            m \in {<<"Service", "Toys">>, <<"Toys", "Service">>},
            l1 \in SubLists(MaxSubs), l2 \in SubLists(MaxSubs)}

CustomFiles ==
    {NoCustomFile} \cup {[exists |-> TRUE, custom |-> c] : c \in CustomMappings}

\* the module just before its line CATEGORY_TREE = get_full_category_tree()
InitCategories ==
    /\ mode = "import"
    /\ m_cart = <<>> /\ m_sales = <<>>
    /\ custom_file \in CustomFiles
    /\ category_tree = CATEGORY_TREE
    /\ AppUnused

\* CATEGORY_TREE = get_full_category_tree()
LoadCategories ==
    /\ mode = "import" /\ op.name = "init"
    /\ category_tree' = get_full_category_tree(category_tree, custom_file)
    /\ op' = Op("get_full_category_tree", "none")
    /\ UNCHANGED <<mode, products, product_buttons, cart, sales_file,
                   products_file, writable, pc, dialog_total, receipt,
                   sale_seq, now, custom_file>>
    /\ UNCHANGED mgrVars
    /\ UNCHANGED ioVars
    /\ UNCHANGED tabs

NextCategories == LoadCategories

SpecCategories == InitCategories /\ [][NextCategories]_vars

----------------------------------------------------------------------------
(* Properties *)

IsPrefix(s, t) == Len(s) <= Len(t) /\ SubSeq(t, 1, Len(s)) = s

\* subtotal + subtotal * tax rate of a cart
TotalWithTax(c) == SumLines(c) + (SumLines(c) * TaxRatePct) \div 100

\* the step is PaymentDialog.process run with the cash entry still to be judged
ProcessStep == pc = "payment" /\ op'.name \in {"process", "finalize_sale"}

\* the step is a payment that went through, finalize_sale included
FinalizeStep == pc = "payment" /\ op'.name = "finalize_sale"

\* C1: a payment whose cash tendered is a number below the cart's total
\* including tax is rejected with Insufficient Funds, and the cart, the
\* catalog with every item's stock, and the sales ledger stay as they were.
C1_InsufficientTenderChangesNothing ==
    [][(/\ ProcessStep
        /\ FloatOk(op'.entry)
        /\ FloatLess(FloatOf(op'.entry), Num(TotalWithTax(cart))))
       => (/\ op'.msg = "Insufficient Funds"
           /\ cart' = cart
           /\ products' = products
           /\ sales_file' = sales_file)]_vars

\* an insufficient payment was just rejected over a filled cart and ledger
C1_Witness ==
    /\ op.name = "process" /\ op.msg = "Insufficient Funds"
    /\ FloatLess(FloatOf(op.entry), Num(TotalWithTax(cart)))
    /\ cart # <<>> /\ sales_file # <<>>

\* C2: in every sale record total = subtotal + tax, tax = subtotal * tax
\* rate, subtotal is the sum of the lines, and change = tendered - total is
\* a number that is at least 0; no record has tendered < total.
C2_SaleRecordArithmetic ==
    \A i \in 1..Len(receipt) :
       LET r == receipt[i] IN
       /\ r.subtotal = SumLines(r.items)
       /\ r.total = r.subtotal + r.tax
       /\ r.tax * 100 = r.subtotal * TaxRatePct
       /\ ~FloatLess(r.cash_tendered, Num(r.total))
       /\ ChangeDue(r).kind = "num"
       /\ ChangeDue(r).v >= 0

\* the same over the records whose cash tendered is a number
C2_NumericTenderOnly ==
    \A i \in 1..Len(receipt) :
       LET r == receipt[i] IN
       r.cash_tendered.kind = "num" =>
         /\ r.subtotal = SumLines(r.items)
         /\ r.total = r.subtotal + r.tax
         /\ r.tax * 100 = r.subtotal * TaxRatePct
         /\ ChangeDue(r).kind = "num"
         /\ ChangeDue(r).v >= 0

\* C3: a payment that goes through reduces the stock of every catalog item
\* of type product that has a cart line with its id by that line's quantity.
C3_StockReducedByQuantity ==
    [][FinalizeStep =>
        /\ Len(products') = Len(products)
        /\ \A i \in 1..Len(products) :
             (products[i].type = "product" /\ HasLine(cart, products[i].id))
             => products'[i].stock
                  = products[i].stock - cart[LineOf(cart, products[i].id)].quantity
      ]_vars

\* C4: a payment that goes through changes no field other than stock of any
\* catalog item, keeps the catalog's length and order, and leaves the stock
\* of every item that is not of type product or has no cart line as it was.
C4_OtherStockAndFieldsUnchanged ==
    [][FinalizeStep =>
        /\ Len(products') = Len(products)
        /\ \A i \in 1..Len(products) :
             /\ [products'[i] EXCEPT !.stock = products[i].stock] = products[i]
             /\ (products[i].type # "product" \/ ~HasLine(cart, products[i].id))
                => products'[i].stock = products[i].stock
      ]_vars

\* a sale just went through that held a service line and left a product out
C4_Witness ==
    /\ op.name = "finalize_sale" /\ receipt # <<>>
    /\ \E i \in 1..Len(products) :
         /\ products[i].type = "service"
         /\ HasLine(receipt[1].items, products[i].id)
    /\ \E i \in 1..Len(products) :
         /\ products[i].type = "product"
         /\ ~HasLine(receipt[1].items, products[i].id)
    /\ \E i \in 1..Len(products) :
         /\ products[i].type = "product"
         /\ HasLine(receipt[1].items, products[i].id)

\* C5: the sales ledger only grows at its end: over every step the file and
\* the list of sales read from it before the step are a prefix of those
\* after it, so a sale once in the ledger stays, unaltered and in place.
C5_LedgerAppendOnly ==
    [][/\ IsPrefix(sales_file, sales_file')
       /\ IsPrefix(ReadLedger(sales_file), ReadLedger(sales_file'))]_vars

\* a sale was added behind the sale the ledger held at startup
C5_Witness ==
    /\ Len(ReadLedger(sales_file)) = 2
    /\ ReadLedger(sales_file)[1] = ReadLedger(OldBlock)[1]
    /\ ReadLedger(sales_file)[2].sale_id = <<Uuid(1)>>

\* the same over the catalogs in which no two items share an id
C3_UniqueIdsOnly ==
    [][(/\ FinalizeStep
        /\ \A i, j \in 1..Len(products) :
             products[i].id = products[j].id => i = j)
       => (/\ Len(products') = Len(products)
           /\ \A i \in 1..Len(products) :
                (products[i].type = "product" /\ HasLine(cart, products[i].id))
                => products'[i].stock
                     = products[i].stock
                       - cart[LineOf(cart, products[i].id)].quantity)
      ]_vars

\* C6: in every reachable state no two lines of the cart carry the same
\* item identifier, in the cart of POSApp and in that of POSManager.
C6_OneLinePerId ==
    /\ \A i, j \in 1..Len(cart) : cart[i].id = cart[j].id => i = j
    /\ \A i, j \in 1..Len(m_cart) :
         m_cart[i].product.product_id = m_cart[j].product.product_id => i = j

\* an item was added again to a cart that holds another item as well
C6_Witness ==
    /\ op.name = "add_to_cart"
    /\ Len(cart) >= 2
    /\ cart[LineOf(cart, op.item[1].id)].quantity >= 2

\* the lines of cart c other than line k are the same in cart d
SameButLine(c, d, k) ==
    /\ Len(d) = Len(c)
    /\ \A i \in 1..Len(c) : i # k => d[i] = c[i]

\* C7: adding an item whose id already has a line raises that line's
\* quantity by the added quantity (1 in POSApp) and touches nothing else in
\* the cart, number and order of lines included; adding an in-stock item
\* without a line appends one line at the end with the added quantity; a
\* second add of the only item of the cart leaves one line with quantity 2.
C7_AddIncrementsOrAppends ==
    [][/\ op'.name = "add_to_cart" =>
            LET p == op'.item[1] IN
            /\ HasLine(cart, p.id) =>
                 LET k == LineOf(cart, p.id) IN
                 /\ SameButLine(cart, cart', k)
                 /\ cart'[k] = [cart[k] EXCEPT !.quantity = @ + 1]
            /\ (~HasLine(cart, p.id) /\ (p.type = "product" => p.stock > 0)) =>
                 /\ Len(cart') = Len(cart) + 1
                 /\ SubSeq(cart', 1, Len(cart)) = cart
                 /\ cart'[Len(cart')].id = p.id
                 /\ cart'[Len(cart')].quantity = 1
            /\ (Len(cart) = 1 /\ cart[1].id = p.id /\ cart[1].quantity = 1) =>
                 (Len(cart') = 1 /\ cart'[1].quantity = 2)
       /\ op'.name = "mgr_add_to_cart" =>
            LET product == op'.item[1].product
                quantity == op'.item[1].quantity IN
            /\ MgrHasLine(m_cart, product.product_id) =>
                 LET k == MgrLineOf(m_cart, product.product_id) IN
                 /\ SameButLine(m_cart, m_cart', k)
                 /\ m_cart'[k] =
                      [m_cart[k] EXCEPT !.quantity = @ + quantity]
            /\ ~MgrHasLine(m_cart, product.product_id) =>
                 /\ m_cart' = Append(m_cart, [product |-> product,
                                              quantity |-> quantity])
      ]_vars

\* the second item of a two-line cart was just added a second time, in
\* POSApp or in POSManager
C7_Witness ==
    \/ /\ op.name = "add_to_cart" /\ Len(cart) = 2
       /\ cart[2].id = op.item[1].id /\ cart[2].quantity = 2
       /\ cart[1].quantity = 1
    \/ /\ op.name = "mgr_add_to_cart" /\ Len(m_cart) = 2
       /\ m_cart[2].product = op.item[1].product
       /\ m_cart[2].quantity = 2 /\ op.item[1].quantity = 1

\* C8: add_to_cart of POSApp shows Out of Stock and leaves the cart as it was
\* exactly when the item has no line in the cart, is of type product and has
\* stock <= 0; otherwise the add changes the cart, so that an item of another
\* type is added whatever its stock.
C8_OutOfStockIff ==
    [][op'.name = "add_to_cart" =>
         LET p == op'.item[1]
             blocked == ~HasLine(cart, p.id) /\ p.type = "product"
                        /\ p.stock <= 0
         IN
         /\ (op'.msg = "Out of Stock") <=> blocked
         /\ (cart' = cart) <=> blocked
         /\ ~blocked => /\ HasLine(cart', p.id)
                        /\ cart'[LineOf(cart', p.id)].quantity
                             = 1 + (IF HasLine(cart, p.id)
                                    THEN cart[LineOf(cart, p.id)].quantity
                                    ELSE 0)
      ]_vars

\* an out-of-stock product was just refused while the cart holds a service
\* whose stock is 0
C8_Witness ==
    /\ op.name = "add_to_cart" /\ op.msg = "Out of Stock"
    /\ op.item[1].type = "product" /\ op.item[1].stock <= 0
    /\ ~HasLine(cart, op.item[1].id)
    /\ \E i \in 1..Len(products) :
         /\ products[i].type = "service" /\ products[i].stock <= 0
         /\ HasLine(cart, products[i].id)

\* the lines of a ledger block that carry a tag
Tagged(block, tag) == SelectSeq(block, LAMBDA l : l.tag = tag)

\* what the file holds behind its first n lines
Behind(file, n) == SubSeq(file, n + 1, Len(file))

\* C9: a payment that goes through and whose ledger write succeeds appends
\* exactly one sale block to the ledger, which reads back as one more sale;
\* its ITEM lines are the cart's lines, one per line and in cart order, each
\* id|name|quantity|price|type|unit of its line.  The cart order is the order
\* of first adds: over every step the lines that stay keep their relative
\* order and a new line goes behind all others.
C9_OneRecordItemsInAddOrder ==
    [][/\ (FinalizeStep /\ writable.sales) =>
            LET block == Behind(sales_file', Len(sales_file))
                items == Tagged(block, "ITEM")
                sales == ReadLedger(sales_file')
            IN
            /\ IsPrefix(sales_file, sales_file')
            /\ Len(Tagged(block, "START")) = 1
            /\ Len(Tagged(block, "END")) = 1
            /\ block[1].tag = "START"
            /\ Len(sales) = Len(ReadLedger(sales_file)) + 1
            /\ Len(items) = Len(cart)
            /\ \A i \in 1..Len(cart) :
                 /\ items[i].parts =
                      <<Text(cart[i].id), Text(cart[i].name),
                        IntText(cart[i].quantity), DecText(cart[i].price),
                        Text(cart[i].type), Text(cart[i].unit)>>
            /\ Len(sales[Len(sales)].items) = Len(cart)
            /\ \A i \in 1..Len(cart) :
                 LET it == sales[Len(sales)].items[i] IN
                 /\ it.id = cart[i].id /\ it.name = cart[i].name
                 /\ it.quantity = cart[i].quantity
                 /\ it.price = Num(cart[i].price)
                 /\ it.type = cart[i].type /\ it.unit = cart[i].unit
       /\ \A a, b \in CartIds(cart) \cap CartIds(cart') :
            LineOf(cart, a) < LineOf(cart, b)
            => LineOf(cart', a) < LineOf(cart', b)
       /\ \A a \in CartIds(cart') \ CartIds(cart) :
            LineOf(cart', a) = Len(cart')
      ]_vars

\* a sale of three lines was just written, its first line not the first
\* item of the catalog and one line added more than once
C9_Witness ==
    /\ op.name = "finalize_sale" /\ writable.sales
    /\ receipt # <<>>
    /\ Len(receipt[1].items) = 3
    /\ receipt[1].items[1].id # products[1].id
    /\ \E i \in 1..3 : receipt[1].items[i].quantity = 2
    /\ Len(Tagged(sales_file, "ITEM")) = 3

\* C10: after a payment that goes through (POSApp) or a checkout that returns
\* a transaction (POSManager) the cart has no lines; a line comes into the
\* cart only by an add of its item, and leaves it only by a remove of its
\* id, a clear of the cart or such a checkout.
C10_CartLineLifetime ==
    [][/\ FinalizeStep => cart' = <<>>
       /\ (op'.name = "mgr_checkout" /\ op'.ret # <<>>) => m_cart' = <<>>
       /\ \A id \in CartIds(cart') \ CartIds(cart) :
            op'.name = "add_to_cart" /\ op'.item[1].id = id
       /\ \A id \in CartIds(cart) \ CartIds(cart') :
            \/ op'.name = "finalize_sale"
            \/ op'.name = "remove_from_cart" /\ id \in op'.sel
       /\ \A id \in MgrCartIds(m_cart') \ MgrCartIds(m_cart) :
            op'.name = "mgr_add_to_cart" /\ op'.item[1].product.product_id = id
       /\ \A id \in MgrCartIds(m_cart) \ MgrCartIds(m_cart') :
            \/ op'.name = "mgr_checkout" /\ op'.ret # <<>>
            \/ op'.name = "mgr_clear_cart"
            \/ op'.name = "mgr_remove_from_cart" /\ id \in op'.sel
      ]_vars

\* a sale of two lines just went through and the cart is empty, in POSApp
\* or in POSManager
C10_Witness ==
    \/ /\ op.name = "finalize_sale" /\ cart = <<>>
       /\ receipt # <<>> /\ Len(receipt[1].items) = 2
    \/ /\ op.name = "mgr_checkout" /\ op.ret # <<>> /\ m_cart = <<>>
       /\ Len(op.ret[1].items) = 2

RECURSIVE LineSum(_, _)
\* price x quantity summed over the first n lines of a cart
LineSum(c, n) ==
    IF n = 0 THEN 0 ELSE LineSum(c, n - 1) + c[n].price * c[n].quantity

\* C12: for every non-empty cart the totals update_totals shows satisfy
\* subtotal = sum of price x quantity over the lines, tax = subtotal x tax
\* rate and total = subtotal + tax; the total checkout hands to the
\* PaymentDialog is that same total for the same cart.
C12_TotalsAndAmountDue ==
    [][/\ cart' # <<>> =>
            LET t == update_totals(cart') IN
            /\ t.subtotal = LineSum(cart', Len(cart'))
            /\ t.tax * 100 = t.subtotal * TaxRatePct
            /\ t.total = t.subtotal + t.tax
       /\ (op'.name = "checkout" /\ cart # <<>>) =>
            /\ pc' = "payment"
            /\ dialog_total' = update_totals(cart).total
      ]_vars

\* the payment dialog is open over a cart of two lines, one with quantity 2
C12_Witness ==
    /\ pc = "payment" /\ op.name = "checkout"
    /\ Len(cart) = 2 /\ cart[2].quantity = 2
    /\ dialog_total = update_totals(cart).total
    /\ dialog_total > LineSum(cart, 2)

\* C13: every line of the POSApp cart and of the POSManager cart has a
\* quantity >= 1 in every reachable state.
C13_QuantityAtLeastOne ==
    /\ \A i \in 1..Len(cart) : cart[i].quantity >= 1
    /\ \A i \in 1..Len(m_cart) : m_cart[i].quantity >= 1

\* the same over the POSApp cart alone
C13_AppCartOnly ==
    \A i \in 1..Len(cart) : cart[i].quantity >= 1

\* the step is a change of the catalog made in the ProductManager window:
\* an item added, items deleted, or the catalog saved and reloaded
CatalogStep ==
    op'.name \in {"add_product", "delete_checked_products", "save"}

\* C11: once a sale is recorded, adding, deleting, saving and reloading
\* catalog items changes none of its fields: the ledger file, the sales read
\* from it, the sale record of the receipt and the POSManager transactions
\* are the same after such a step as before; and the last sale read from the
\* ledger keeps the item lines of the receipt as they were captured.
C11_RecordedSaleFrozen ==
    [][/\ CatalogStep =>
            /\ sales_file' = sales_file
            /\ ReadLedger(sales_file') = ReadLedger(sales_file)
            /\ receipt' = receipt
            /\ m_sales' = m_sales
       /\ (receipt' # <<>> /\ writable.sales) =>
            LET sales == ReadLedger(sales_file')
                rec == sales[Len(sales)]
                sold == receipt'[1].items
            IN
            /\ rec.sale_id = <<receipt'[1].sale_id>>
            /\ Len(rec.items) = Len(sold)
            /\ \A i \in 1..Len(sold) :
                 /\ rec.items[i].id = sold[i].id
                 /\ rec.items[i].name = sold[i].name
                 /\ rec.items[i].quantity = sold[i].quantity
                 /\ rec.items[i].price = Num(sold[i].price)
                 /\ rec.items[i].type = sold[i].type
                 /\ rec.items[i].unit = sold[i].unit
            /\ rec.subtotal = <<Num(Fmt2(receipt'[1].subtotal))>>
            /\ rec.total = <<Num(Fmt2(receipt'[1].total))>>
      ]_vars

\* after a sale of Coffee (id p1) the item was deleted and the id given to
\* an item of another name and price; the ledger still shows what was sold
C11_Witness ==
    /\ op.name \in {"add_product", "delete_checked_products", "save"}
    /\ receipt # <<>>
    /\ receipt[1].items[1].id = "p1" /\ receipt[1].items[1].price = 25000
    /\ products # <<>>
    /\ \A i \in 1..Len(products) :
         products[i].id = "p1" /\ products[i].price = 30000
    /\ LET sales == ReadLedger(sales_file) IN
       sales[Len(sales)].items[1].price = Num(25000)

\* the catalog has exactly one item with this id
InCatalogOnce(ps, id) ==
    /\ \E i \in 1..Len(ps) : ps[i].id = id
    /\ \A i, j \in 1..Len(ps) : (ps[i].id = id /\ ps[j].id = id) => i = j

\* the price the catalog has for this id
CatalogPrice(ps, id) == ps[CHOOSE i \in 1..Len(ps) : ps[i].id = id].price

RECURSIVE CatalogSum(_, _, _)
\* catalog price x quantity summed over the first n lines of a cart
CatalogSum(c, ps, n) ==
    IF n = 0 THEN 0
    ELSE CatalogSum(c, ps, n - 1) + CatalogPrice(ps, c[n].id) * c[n].quantity

\* C14: the totals of a cart are computed from the prices the catalog has
\* at pricing time: whenever each line's id is the id of exactly one catalog
\* item, the subtotal shown is the sum of catalog price x quantity, and the
\* total handed to an open PaymentDialog is that subtotal plus tax.
C14_PricedFromCatalog ==
    (/\ cart # <<>>
     /\ \A i \in 1..Len(cart) : InCatalogOnce(products, cart[i].id))
    => /\ update_totals(cart).subtotal = CatalogSum(cart, products, Len(cart))
       /\ pc = "payment" =>
            dialog_total
              = (CatalogSum(cart, products, Len(cart)) * (100 + TaxRatePct))
                \div 100

\* the last SALE START line of the file has no SALE END line behind it
LastBlockCut(file) ==
    \E i \in 1..Len(file) :
       /\ file[i].tag = "START"
       /\ \A j \in (i + 1)..Len(file) : file[j].tag \notin {"START", "END"}

\* the file in front of its last SALE START line
BeforeLastBlock(file) ==
    LET i == CHOOSE k \in 1..Len(file) :
                /\ file[k].tag = "START"
                /\ \A j \in (k + 1)..Len(file) : file[j].tag # "START"
    IN SubSeq(file, 1, i - 1)

\* C15: over a sales file whose last block has a SALE START line and no SALE
\* END line, the ledger readers of create_sales_summary and
\* create_analytics_tab raise nothing and return one record for each whole
\* block in front of it, in file order, and none for the block cut short.
C15_CutBlockOmitted ==
    [][(/\ op'.name \in {"create_sales_summary", "create_analytics_tab"}
        /\ LastBlockCut(sales_file))
       => LET whole == BeforeLastBlock(sales_file) IN
          /\ op'.msg = "none"
          /\ Len(op'.ret[1]) = Len(Tagged(whole, "END"))
          /\ op'.name = "create_sales_summary"
             => op'.ret[1] = SummarySales(whole).sales
          /\ op'.name = "create_analytics_tab"
             => op'.ret[1] = AnalyticsSales(whole).sales
      ]_vars

\* the write stopped behind a separator: the last line of the file ends in
\* an empty field
EndsInEmptyField(file) ==
    /\ file # <<>>
    /\ file[Len(file)].parts # <<>>
    /\ file[Len(file)].parts[Len(file[Len(file)].parts)] = Text("")

\* the same over the files that do not end in an empty field
C15_NoEmptyFieldOnly ==
    [][(/\ op'.name \in {"create_sales_summary", "create_analytics_tab"}
        /\ LastBlockCut(sales_file)
        /\ ~EndsInEmptyField(sales_file))
       => LET whole == BeforeLastBlock(sales_file) IN
          /\ op'.msg = "none"
          /\ Len(op'.ret[1]) = Len(Tagged(whole, "END"))
          /\ op'.name = "create_sales_summary"
             => op'.ret[1] = SummarySales(whole).sales
          /\ op'.name = "create_analytics_tab"
             => op'.ret[1] = AnalyticsSales(whole).sales
      ]_vars

\* the sale the reader returns last is the sale finalize_sale just wrote:
\* its id, timestamp and item lines, and its amounts to two decimals
ReadsBack(before, after, c, rec) ==
    LET out == SummarySales(after)
        last == out.sales[Len(out.sales)]
        Rounded(x) == IF x.kind = "num" THEN Num(Fmt2(x.v)) ELSE x
    IN
    /\ ~out.raised
    /\ Len(out.sales) = Len(SummarySales(before).sales) + 1
    /\ last.sale_id = <<rec.sale_id>>
    /\ last.timestamp = <<rec.timestamp>>
    /\ Len(last.items) = Len(c)
    /\ \A i \in 1..Len(c) :
         /\ last.items[i].id = c[i].id
         /\ last.items[i].name = c[i].name
         /\ last.items[i].quantity = c[i].quantity
         /\ last.items[i].price = Num(c[i].price)
         /\ last.items[i].type = c[i].type
         /\ last.items[i].unit = c[i].unit
    /\ last.subtotal = <<Num(Fmt2(rec.subtotal))>>
    /\ last.total = <<Num(Fmt2(rec.total))>>
    /\ last.cash_tendered = <<Rounded(rec.cash_tendered)>>
    /\ last.tax = FloatSub(last.total[1], last.subtotal[1])

\* C16: every sale finalize_sale appends to the ledger is read back by the
\* reader of create_sales_summary as one record with the same sale id,
\* timestamp, item lines, subtotal, total and tendered amount, and tax =
\* total - subtotal, for every name and unit a catalog item can have.
C16_SaleReadsBack ==
    [][(FinalizeStep /\ writable.sales)
       => ReadsBack(sales_file, sales_file', cart, receipt'[1])]_vars

\* no text of the cart line holds the separator of the ITEM line
NoSeparator(c) ==
    \A i \in 1..Len(c) :
       /\ Bars(c[i].id) = {} /\ Bars(c[i].name) = {}
       /\ Bars(c[i].type) = {} /\ Bars(c[i].unit) = {}

\* the same for the sales whose item ids, names, types and units hold no '|'
C16_NoSeparatorOnly ==
    [][(FinalizeStep /\ writable.sales /\ NoSeparator(cart))
       => ReadsBack(sales_file, sales_file', cart, receipt'[1])]_vars

\* the fields of a catalog item: the sub-category is the key subcategory of
\* a dict made by the dialog and the key category_sub of a dict made by
\* load_data
ItemFields(p) ==
    [id |-> p.id, name |-> p.name, category |-> p.category,
     subcategory |-> Get(p, "subcategory", Get(p, "category_sub", "")),
     type |-> p.type, price |-> p.price, stock |-> p.stock, unit |-> p.unit,
     description |-> p.description]

SameCatalog(a, b) ==
    /\ Len(a) = Len(b)
    /\ \A i \in 1..Len(a) : ItemFields(a[i]) = ItemFields(b[i])

\* Save to File went through: save_products() returned True and load_data()
\* then read the file it wrote
SaveLoadStep == op'.name = "save" /\ op'.msg # "Error"

Carried(p, format) ==
    IF format = "txt"
    THEN /\ ItemFields(p).subcategory = ""
         /\ Bars(p.id) = {} /\ Bars(p.name) = {} /\ Bars(p.category) = {}
         /\ Bars(p.type) = {} /\ Bars(p.unit) = {}
         /\ Bars(p.description) = {}
    ELSE Get(p, "subcategory", "") = ""

\* the same for the catalogs the format of the active file can carry
C17_CarriedOnly ==
    [][(/\ SaveLoadStep
        /\ \A i \in 1..Len(products) :
              Carried(products[i], FileAt(active_path).format))
       => SameCatalog(products, products')]_vars

\* Import from IMS ran and its load_data(file_path) raised
FailedLoadStep == op'.name = "import_from_ims" /\ op'.ret = <<FALSE>>

\* C18: when load_data fails on a malformed row or field, nothing is applied
\* in part: the catalog behind the failed load equals the catalog in front of
\* it and holds no item parsed from the rows that precede the malformed one.
C18_FailedLoadKeepsCatalog ==
    [][FailedLoadStep => op'.item = products]_vars

\* a row of a text catalog that is not blank and has neither 4 nor 8 or more
\* fields
OddRow(row) == ~IsBlank(row) /\ Len(row) # 4 /\ Len(row) < 8

\* C19: loading a pipe-delimited file that has a non-blank row whose number
\* of fields is neither 4 nor at least 8 fails as a whole with a data-format
\* error; the row is never skipped silently.
C19_OddRowFailsLoad ==
    [][(/\ op'.name = "import_from_ims"
        /\ ims_file.format = "txt"
        /\ \E i \in 1..Len(ims_file.rows) : OddRow(ims_file.rows[i]))
       => /\ op'.ret = <<FALSE>>
          /\ op'.msg = "Error Loading Data"]_vars

\* C20: save_products never changes the catalog in memory, whether the write
\* succeeds or fails; when the write fails it reports the failure (the error
\* box, and False to its caller) and the path of the active products file is
\* the one it was.
C20_SaveKeepsCatalogAndPath ==
    [][/\ op'.name = "export_to_ims"
          => /\ products' = products
             /\ ~WritableAt(ImsPath)
                => /\ op'.ret = <<FALSE>>
                   /\ op'.msg = "Error Saving Data"
                   /\ active_path' = active_path
       /\ (op'.name = "save" /\ ~WritableAt(active_path))
          => /\ op'.msg = "Error"
             /\ products' = products
             /\ active_path' = active_path
      ]_vars

\* an export of a catalog of one item or more to a path that cannot be
\* written has just failed, the default file being the active one
C20_Witness ==
    /\ op.name = "export_to_ims" /\ op.ret = <<FALSE>>
    /\ ~writable.ims
    /\ products # <<>>
    /\ active_path = DefaultPath

\* C21: in every reachable state, after any sequence of loads, imports, adds,
\* deletes and checkouts, no two catalog items have the same identifier.
C21_UniqueIdentifiers ==
    \A i, j \in 1..Len(products) : i # j => products[i].id # products[j].id

\* the Analytics tab has just been built from the sales file
AnalyticsStep == op'.name = "create_analytics_tab" /\ op'.msg = "none"

\* C22: the sales-by-day table has one row for each date and shows, for the
\* date, the sum of the total of every complete ledger record whose timestamp
\* has that date portion.
C22_SalesByDayTotals ==
    [][AnalyticsStep
       => LET records == SummarySales(sales_file).sales
              shown == tabs'.analytics[1].by_day
          IN
          /\ DOMAIN shown = {DateOf(records[i]) : i \in 1..Len(records)}
          /\ \A date \in DOMAIN shown :
               Num(shown[date]) =
                 SumTotals(SelectSeq(records, LAMBDA r : DateOf(r) = date))
      ]_vars

\* the rows of the table are the dates of the complete records
C22_DatesOnly ==
    [][AnalyticsStep
       => LET records == SummarySales(sales_file).sales IN
          DOMAIN tabs'.analytics[1].by_day =
            {DateOf(records[i]) : i \in 1..Len(records)}
      ]_vars

\* C23: the reports are recomputed from the ledger on each request: whenever
\* the Sales Summary or the Analytics tab is looked at, also after a checkout
\* has appended a sale, it shows what the ledger as it is now gives (total
\* revenue, transaction count, log, top items, sales by type and by day).
C23_ReportsFromLedgerNow ==
    mode = "app" => tabs = BuiltTabs(sales_file)

\* no handler of the running application builds the tabs again
C23_TabsNeverRebuilt == [][tabs' = tabs]_vars

NoRepeats(seq) == \A i, j \in 1..Len(seq) : i # j => seq[i] # seq[j]

\* C24: for any custom mapping the merged tree starts with every built-in
\* main in the original order, each with its built-in subs first and in their
\* original order; what the custom mapping adds are new mains behind them and
\* subs appended to a main that did not have them; nothing else is in the
\* tree, and no main lists a sub twice.
C24_MergedTreeKeepsBuiltIns ==
    [][op'.name = "get_full_category_tree"
       => LET tree == category_tree'
              custom == load_custom_categories(custom_file)
          IN
          /\ Len(tree) >= Len(CATEGORY_TREE)
          /\ \A i \in 1..Len(CATEGORY_TREE) :
               /\ tree[i].main = CATEGORY_TREE[i].main
               /\ IsPrefix(CATEGORY_TREE[i].subs, tree[i].subs)
          /\ NoRepeats([i \in 1..Len(tree) |-> tree[i].main])
          /\ \A i \in 1..Len(tree) : NoRepeats(tree[i].subs)
          /\ \A k \in 1..Len(custom) :
               /\ custom[k].main \in Mains(tree)
               /\ Elems(custom[k].subs)
                    \subseteq Elems(tree[EntryOf(tree, custom[k].main)].subs)
          /\ \A i \in 1..Len(tree) :
               LET builtin == IF i <= Len(CATEGORY_TREE)
                              THEN Elems(CATEGORY_TREE[i].subs) ELSE {}
                   added == UNION {Elems(custom[k].subs) :
                                     k \in {n \in 1..Len(custom) :
                                              custom[n].main = tree[i].main}}
               IN /\ i > Len(CATEGORY_TREE) => tree[i].main \in Mains(custom)
                  /\ Elems(tree[i].subs) = builtin \cup added
      ]_vars

\* a custom file was merged that names a built-in main with a sub it has, a
\* sub it has not and a repeated sub, and a new main
C24_Witness ==
    /\ op.name = "get_full_category_tree"
    /\ custom_file.exists
    /\ \E k \in 1..Len(custom_file.custom) :
         /\ custom_file.custom[k].main = "Service"
         /\ custom_file.custom[k].subs = <<"Robots", "Repair">>
    /\ \E k \in 1..Len(custom_file.custom) :
         /\ custom_file.custom[k].main = "Toys"
         /\ custom_file.custom[k].subs = <<"Robots", "Robots">>
    /\ Len(category_tree) = Len(CATEGORY_TREE) + 1

\* the quantity finalize_sale takes from the stock of catalog item i: that of
\* the cart line with its id, for the first item of type product with the id
SoldOf(ps, c, i) ==
    IF /\ ps[i].type = "product"
       /\ HasLine(c, ps[i].id)
       /\ \A j \in 1..(i - 1) : ps[j].id # ps[i].id
    THEN c[LineOf(c, ps[i].id)].quantity
    ELSE 0

\* C25: when the append of the sale to the ledger fails in finalize_sale, the
\* other steps are still carried out: the stock decrements stay applied in
\* memory, the catalog is saved with the decremented stock, the cart is
\* emptied, and the ledger holds no record of the sale.
C25_LedgerFailureStillFinalizes ==
    [][(FinalizeStep /\ ~writable.sales)
       => /\ sales_file' = sales_file
          /\ cart' = <<>>
          /\ Len(products') = Len(products)
          /\ \A i \in 1..Len(products) :
               products'[i].stock
                 = products[i].stock - SoldOf(products, cart, i)
          /\ WritableAt(active_path)
             => LET saved == load_data(IF active_path = ImsPath
                                       THEN ims_file' ELSE products_file')
                IN /\ saved.ok
                   /\ Len(saved.products) = Len(products')
                   /\ \A i \in 1..Len(products') :
                        /\ saved.products[i].id = products'[i].id
                        /\ saved.products[i].stock = products'[i].stock
      ]_vars

\* a sale of a product went through while the sales file could not be
\* written: Sale Log Error was shown and the product's stock went to 0
C25_Witness ==
    /\ op.name = "finalize_sale" /\ op.msg = "Sale Log Error"
    /\ ~writable.sales /\ writable.products
    /\ cart = <<>>
    /\ receipt # <<>>
    /\ \E i \in 1..Len(products) :
         /\ products[i].type = "product"
         /\ HasLine(receipt[1].items, products[i].id)
         /\ products[i].stock = 0
         /\ load_data(products_file).products[i].stock = 0

\* C26: add_to_cart on a product that already has a cart line is never blocked
\* by stock: the line's quantity goes up by one and no Out of Stock message is
\* shown, also when the product's stock is 0 or the quantity already equals
\* the stock; every other line and the catalog are left alone.
C26_IncrementNeverBlocked ==
    [][(op'.name = "add_to_cart" /\ HasLine(cart, op'.item[1].id))
       => LET p == op'.item[1]
              k == LineOf(cart, p.id)
          IN /\ op'.msg = "none"
             /\ Len(cart') = Len(cart)
             /\ cart'[k].quantity = cart[k].quantity + 1
             /\ \A j \in 1..Len(cart) : j # k => cart'[j] = cart[j]
             /\ products' = products
      ]_vars

\* an add on a product with a cart line left the line's quantity above the
\* stock of the product that was clicked
C26_Witness ==
    /\ op.name = "add_to_cart" /\ op.msg = "none"
    /\ op.item[1].type = "product"
    /\ HasLine(cart, op.item[1].id)
    /\ cart[LineOf(cart, op.item[1].id)].quantity > op.item[1].stock
    /\ \E i \in 1..Len(products) : products[i] = op.item[1]

\* the same with a product whose stock is 0 when it is clicked
C26_WitnessZeroStock ==
    /\ op.name = "add_to_cart" /\ op.msg = "none"
    /\ op.item[1].type = "product" /\ op.item[1].stock = 0
    /\ HasLine(cart, op.item[1].id)
    /\ cart[LineOf(cart, op.item[1].id)].quantity >= 2

StockNonNegative(ps) == \A i \in 1..Len(ps) : ps[i].stock >= 0

\* C27: starting from a catalog in which every product's stock is >= 0, the
\* stock of every product is still >= 0 after every add to the cart, every
\* removal from the cart and every checkout that goes through.
C27_StockNeverNegative ==
    [][(/\ op'.name \in {"add_to_cart", "remove_from_cart", "finalize_sale"}
        /\ StockNonNegative(products))
       => StockNonNegative(products')
      ]_vars

\* add and remove leave the stock alone, and a sale in which no line's
\* quantity is above the stock of its product keeps every stock >= 0
C27_StockKeptWithinStock ==
    [][(/\ op'.name \in {"add_to_cart", "remove_from_cart", "finalize_sale"}
        /\ StockNonNegative(products)
        /\ \A k \in 1..Len(cart) :
             LET i == StockTarget(products, cart[k])
             IN i # 0 => cart[k].quantity <= products[i].stock)
       => StockNonNegative(products')
      ]_vars

\* C28: an import through import_from_ims whose load_data fails leaves the
\* active catalog as it was: the catalog in memory and the contents of the
\* active products file behind the failed import equal those in front of it.
C28_FailedImportKeepsCatalog ==
    [][FailedLoadStep
       => /\ products' = products
          /\ products_file' = products_file
          /\ ims_file' = ims_file
      ]_vars

\* what a failed import does keep: the path of the active products file and
\* the file that was picked for the import
C28_FailedImportKeepsPath ==
    [][FailedLoadStep
       => /\ active_path' = active_path
          /\ active_path = DefaultPath => ims_file' = ims_file
      ]_vars

\* POSApp.checkout was called with no line in the cart
AppEmptyCheckout == op'.name = "checkout" /\ cart = <<>>

\* POSManager.checkout was called with no line in the cart
\* and an amount of cash that is a number
MgrEmptyCheckout ==
    /\ op'.name = "mgr_checkout" /\ m_cart = <<>>
    /\ op'.item[1].kind = "num"

\* C29: checkout on an empty cart records no sale, in POSApp.checkout and in
\* POSManager.checkout alike: no sale record or transaction is added, and the
\* cart, the catalog and the ledger are left unchanged.
C29_EmptyCartRecordsNoSale ==
    [][/\ AppEmptyCheckout
          => /\ pc' = "idle"
             /\ UNCHANGED <<cart, products, sales_file, products_file>>
       /\ MgrEmptyCheckout
          => /\ op'.ret = <<>>
             /\ UNCHANGED <<m_cart, m_sales>>
      ]_vars

\* the POSApp half: Empty Cart is shown, no payment dialog opens and nothing
\* is changed
C29_AppEmptyCartRefused ==
    [][AppEmptyCheckout
       => /\ op'.msg = "Empty Cart"
          /\ pc' = "idle"
          /\ UNCHANGED <<cart, products, sales_file, products_file>>
      ]_vars

\* what C30 says of one call POSManager.checkout(cash_tendered)
CheckoutAsClaimed(cash_tendered) ==
    LET total == get_cart_total(m_cart) IN
    IF cash_tendered.kind = "num" /\ cash_tendered.v < total
    THEN /\ op'.ret = <<>>
         /\ UNCHANGED <<m_cart, m_sales, products>>
    ELSE /\ Len(m_sales') = Len(m_sales) + 1
         /\ SubSeq(m_sales', 1, Len(m_sales)) = m_sales
         /\ LET t == m_sales'[Len(m_sales')] IN
            /\ t.items = m_cart
            /\ t.total = total
            /\ t.cash_tendered = cash_tendered
            /\ t.change.kind = "num"
            /\ t.change.v = cash_tendered.v - total
            /\ t.change.v >= 0
            /\ op'.ret = <<t>>
         /\ m_cart' = <<>>

\* C30: POSManager.checkout(cash_tendered) returns None and leaves the cart,
\* the sales and the products unchanged when cash_tendered is less than
\* get_cart_total(); otherwise it appends exactly one transaction whose items
\* are the cart lines in cart order, whose total is the sum of price times
\* quantity and whose change is cash_tendered - total >= 0, returns it and
\* empties the cart.
C30_MgrCheckoutContract ==
    [][op'.name = "mgr_checkout" => CheckoutAsClaimed(op'.item[1])]_vars

\* the same for every amount of cash that is a number
C30_NumericCashOnly ==
    [][(op'.name = "mgr_checkout" /\ op'.item[1].kind = "num")
       => CheckoutAsClaimed(op'.item[1])]_vars

====
